---- MODULE Spec2Model ----
(***************************************************************************)
(* A model of the online feature-serving core of feast_server_rust:        *)
(*   - get_feature_status and group_rows (response_builder.rs),            *)
(*   - GetOnlineFeatureResponseBuilder and GetOnlineFeatureResponse::      *)
(*     try_from (response_builder.rs),                                     *)
(*   - build_lookup_key_mapping and feature_views_to_keys                  *)
(*     (feature_store_impl.rs).                                            *)
(* Rust vectors are sequences; a Rust index i is position i + 1 here.      *)
(* A tagged Rust value is a tuple whose first element is the tag.          *)
(***************************************************************************)
EXTENDS Integers, Sequences, FiniteSets, TLC

VARIABLES
    \* ---- GetOnlineFeatureResponse::try_from: its arguments
    entity_keys,        \* HashMap<name, Vec<EntityIdValue>> in its iteration order
    rows,               \* Vec<OnlineStoreRow>
    feature_views,      \* HashMap<view name, FeatureView>
    lookup_mapping,     \* HashMap<EntityColumnRef, lookup name>
    feature_set,        \* HashSet<Feature> (mutable argument)
    full_feature_names, \* bool
    \* ---- try_from: its locals
    grouped_rows,       \* HashMap<RequestEntityIdKey, Vec<ResponseFeatureRow>>
    builder,            \* GetOnlineFeatureResponseBuilder
    ei,                 \* number of entity names the outer loop has taken
    ki,                 \* number of keys of the current name the inner loop has taken
    pc,                 \* position in try_from
    response,           \* what try_from returned
    iter_order,         \* the order in which add_missing_features iterated its HashSet
    \* ---- get_feature_status: one call
    now,                \* Utc::now()
    st_value,           \* value: &Value
    st_view,            \* feature_view: Option<FeatureView>
    st_event_ts,        \* event_ts
    st_now,             \* what Utc::now() read inside the call
    st_status,          \* the returned FeatureStatus
    \* ---- feature_views_to_keys: one call
    pl_entities,        \* requested_entity_keys
    pl_views,           \* feature_to_view in its iteration order
    pl_mapping,         \* lookup_mapping
    pl_cache,           \* key_cache
    pl_result,          \* result: Vec<FeatureWithKeys>
    pl_i,               \* number of entries of feature_to_view taken
    pl_error,           \* the error feature_views_to_keys returned, if any
    pl_pc,              \* position in feature_views_to_keys
    \* ---- FeatureStore::get_online_features: one call
    sv_request,         \* request: GetOnlineFeaturesRequest
    sv_store_calls,     \* number of calls of online_store.get_feature_values
    sv_rows,            \* feature_rows
    sv_result,          \* what get_online_features returned
    sv_pc,              \* position in get_online_features
    \* ---- CachedFileRegistry, its refresh task and one request_to_view_keys
    cr_inner,           \* inner: the snapshot published (its allocation number)
    cr_created_at,      \* created_at
    cr_ttl,             \* ttl
    cr_live,            \* the snapshots allocated and not yet dropped
    rf_pc,              \* position of the refresh task
    rf_next,            \* the instant of the next tick of its interval
    rf_new,             \* new_registry when it is Ok(reg)
    rf_last,            \* how the last reload ended
    rd_pc,              \* position in request_to_view_keys
    rd_request,         \* request: the feature strings
    rd_names,           \* parsed_requested_features
    rd_registry,        \* registry: the snapshot the guard of inner.load() holds
    rd_i,               \* number of names resolved
    rd_result,          \* the map built so far, then the value returned
    rd_warned,          \* whether "Using stale registry" was logged
    \* ---- history of the cached registry: the refresh whose created_at is
    \* stored, and the one whose created_at the call loaded
    cr_created_by,
    rd_created_by,
    \* ---- key_serialization: serialize_key, then deserialize_key
    kc_key,             \* entity_key
    kc_version,         \* serializer_version
    kc_bytes,           \* what serialize_key returned
    kc_decoded,         \* what deserialize_key returned
    kc_pc,              \* which of the two calls comes next
    \* ---- one call of an online store's get_feature_values
    st_kind,            \* the store configured: "sqlite" or "redis"
    st_cells,           \* what the backend holds for each (view, feature) of the key
    st_tables,          \* how the query of each view's table ends
    st_features,        \* features: HashMap<HashEntityKey, Vec<Arc<Feature>>>
    st_view_to_keys,    \* view_to_keys, what is left of it to iterate
    st_view_features,   \* view_features
    st_tasks,           \* join_set: the task of each view spawned and not joined
    st_feature_rows,    \* feature_rows
    st_result,          \* what get_feature_values returned
    st_pc,              \* position in get_feature_values
    \* ---- the adapter that serves the request
    ad_surface,         \* "http" or "grpc"
    ad_reply,           \* what the adapter answered
    \* ---- the connection pool of the sqlite store and the calls that use it
    pool_idle,          \* the connections no task holds
    pool_calls          \* the calls of get_feature_values in progress

builder_vars == <<entity_keys, rows, feature_views, lookup_mapping, feature_set,
                  full_feature_names, grouped_rows, builder, ei, ki, pc, response,
                  iter_order>>
status_vars == <<st_value, st_view, st_event_ts, st_now, st_status>>
planner_vars == <<pl_entities, pl_views, pl_mapping, pl_cache, pl_result, pl_i,
                  pl_error, pl_pc>>
serve_vars == <<sv_request, sv_store_calls, sv_rows, sv_result, sv_pc>>
cache_vars == <<cr_inner, cr_created_at, cr_created_by, cr_ttl, cr_live, rf_pc, rf_next, rf_new,
                rf_last, rd_pc, rd_request, rd_names, rd_registry, rd_i, rd_result,
                rd_warned, rd_created_by>>
codec_vars == <<kc_key, kc_version, kc_bytes, kc_decoded, kc_pc>>
store_vars == <<st_kind, st_cells, st_tables, st_features, st_view_to_keys, st_view_features,
               st_tasks, st_feature_rows, st_result, st_pc>>
adapter_vars == <<ad_surface, ad_reply>>
pool_vars == <<pool_idle, pool_calls>>
tail_vars == <<adapter_vars, pool_vars>>
ext_vars == <<serve_vars, cache_vars, codec_vars, store_vars, tail_vars>>
vars == <<builder_vars, now, status_vars, planner_vars, ext_vars>>

(***************************************************************************)
(* Bounds of the model.                                                    *)
(***************************************************************************)
\* total number of entity ids one request carries, over all its entity names
MaxKeys == 3
\* number of rows the online store hands to try_from
MaxRows == 2
\* the largest instant of the clock (chrono's DateTime::MAX_UTC)
MaxTime == 6
\* the largest TTL a view declares
MaxTtl == 3
\* 2^31 of the i32 column type, scaled down to the ids of the model
I32Half == 4
\* number of ids the planner's requests give for one entity name
MaxVector == 2
\* number of features the planner's requests resolve
MaxFeatures == 2
\* number of registry snapshots ever loaded, the first one included
MaxSnapshots == 3
\* number of join keys of the entity keys given to the codec
MaxColumns == 2
\* number of connections of the pool (max_connections) and of concurrent calls
MaxConnections == 2
MaxCalls == 2

(***************************************************************************)
(* Sequence helpers.                                                       *)
(***************************************************************************)
At(s, i) == s[i + 1]
SetAt(s, i, x) == [s EXCEPT ![i + 1] = x]
Range(s) == {s[i] : i \in DOMAIN s}
Repeat(x, n) == [i \in 1..n |-> x]
Max(S) == CHOOSE x \in S : \A y \in S : y <= x
SeqsUpTo(S, n) == UNION {[1..k -> S] : k \in 0..n}
Injective(s) == \A i, j \in DOMAIN s : i # j => s[i] # s[j]
Perms(S) == {s \in [1..Cardinality(S) -> S] : Injective(s)}
PermsOfSeq(s) == {[i \in DOMAIN s |-> s[p[i]]] : p \in Perms(DOMAIN s)}

(***************************************************************************)
(* model.rs: values, statuses, features, views.                            *)
(***************************************************************************)
DUMMY_ENTITY_ID == "__dummy_id"
DUMMY_ENTITY_NAME == "__dummy"
DUMMY_ENTITY_VAL == ""
UNIX_EPOCH == 0

\* EntityIdValue
IdInt(i) == <<"Int", i>>
IdString(s) == <<"String", s>>
\* Value { val: Option<Val> }
NoVal == <<"None">>
Int32Val(i) == <<"Int32Val", i>>
Int64Val(i) == <<"Int64Val", i>>
StringVal(s) == <<"StringVal", s>>
DoubleVal(d) == <<"DoubleVal", d>>

Feature(view, name) == [feature_view_name |-> view, feature_name |-> name]
Field(name, type) == [name |-> name, value_type |-> type]
\* Option<T>: None is the empty sequence, Some(x) the sequence <<x>>
None == <<>>
Some(x) == <<x>>

is_entity_less(view) ==
    Len(view.entity_names) = 1 /\ view.entity_names[1] = DUMMY_ENTITY_NAME

(***************************************************************************)
(* util.rs and model.rs: the TTL of a view read from the registry.  Time   *)
(* is counted in whole seconds: the nanos of a duration are zero.          *)
(***************************************************************************)
prost_duration_to_duration(seconds) == IF seconds > 0 THEN seconds ELSE 0
\* TryFrom<FeatureViewProto>: spec.ttl is an Option
ttl_of_proto(proto_ttl) ==
    IF proto_ttl = None THEN 0 ELSE prost_duration_to_duration(proto_ttl[1])

(***************************************************************************)
(* response_builder.rs: get_feature_status.                                *)
(***************************************************************************)
\* chrono's DateTime::checked_add_signed: None past the largest instant
checked_add_signed(ts, d) == IF ts + d > MaxTime THEN None ELSE Some(ts + d)

get_feature_status_inclusive(value, feature_view, event_ts, t) ==
    IF value = NoVal THEN "NullValue"
    ELSE IF feature_view # None
         THEN LET expiration_time == checked_add_signed(event_ts, feature_view[1].ttl)
              IN IF expiration_time # None
                 THEN IF t >= expiration_time[1] THEN "OutsideMaxAge" ELSE "Present"
                 ELSE "Present"
         ELSE "Present"

get_feature_status(value, feature_view, event_ts, t) ==
    IF value = NoVal THEN "NullValue"
    ELSE IF feature_view # None
         THEN LET expiration_time == checked_add_signed(event_ts, feature_view[1].ttl)
              IN IF expiration_time # None
                 THEN IF t > expiration_time[1] THEN "OutsideMaxAge" ELSE "Present"
                 ELSE "Present"
         ELSE "Present"

(***************************************************************************)
(* response_builder.rs: group_rows.                                        *)
(***************************************************************************)
EntityColumnRef(view_name, column_name) ==
    [view_name |-> view_name, column_name |-> column_name]
RequestEntityIdKey(name, value) == [name |-> name, value |-> value]
ResponseFeatureRow(feature, value, status, event_ts) ==
    [feature |-> feature, value |-> value, status |-> status, event_ts |-> event_ts]
\* OnlineStoreRow (created_ts is never read)
OnlineStoreRow(view, join_keys, entity_values, feature_name, value, event_ts) ==
    [feature_view_name |-> view,
     entity_key |-> [join_keys |-> join_keys, entity_values |-> entity_values],
     feature_name |-> feature_name, value |-> value, event_ts |-> event_ts]

\* Result<EntityIdValue>
val_to_entity_id_value(val) ==
    CASE val[1] = "Int32Val" -> <<"Ok", IdInt(val[2])>>
      [] val[1] = "Int64Val" -> <<"Ok", IdInt(val[2])>>
      [] val[1] = "StringVal" -> <<"Ok", IdString(val[2])>>
      [] OTHER -> <<"Err">>

entity_less_request_entity_key ==
    RequestEntityIdKey(DUMMY_ENTITY_ID, IdString(DUMMY_ENTITY_VAL))

\* HashMap::get
MapGet(m, k) == IF k \in DOMAIN m THEN Some(m[k]) ELSE None
\* HashMap::insert
MapInsert(m, k, x) == [y \in DOMAIN m \cup {k} |-> IF y = k THEN x ELSE m[y]]
\* HashMap::remove: the map without k
MapWithout(m, k) == [y \in DOMAIN m \ {k} |-> m[y]]
EmptyMap == [y \in {} |-> 0]

\* the loop of group_rows from row i on; result is the map built so far
RECURSIVE group_rows_from(_, _, _, _, _, _)
group_rows_from(rs, i, result, fviews, lmap, t) ==
    IF i > Len(rs) THEN <<"Ok", result>>
    ELSE LET row == rs[i]
             entity_key == row.entity_key
         IN IF Len(entity_key.join_keys) # 1 \/ Len(entity_key.entity_values) # 1
            THEN <<"Err", "Invalid entity key with multiple join keys or entity values">>
            ELSE LET entity_col_ref ==
                         EntityColumnRef(row.feature_view_name, entity_key.join_keys[1])
                     lookup_key == MapGet(lmap, entity_col_ref)
                 IN IF lookup_key = None
                    THEN <<"Panic", "lookup_mapping should contain all entity columns">>
                    ELSE IF entity_key.entity_values[1] = NoVal
                    THEN <<"Err", "Empty entity id value">>
                    ELSE LET entity_id_value ==
                                 val_to_entity_id_value(entity_key.entity_values[1])
                         IN IF entity_id_value[1] = "Err"
                            THEN <<"Err", "Unsupported entity value type">>
                            ELSE LET request_entity_key ==
                                         RequestEntityIdKey(lookup_key[1], entity_id_value[2])
                                     status == get_feature_status(row.value,
                                                   MapGet(fviews, entity_col_ref.view_name),
                                                   row.event_ts, t)
                                     old == IF request_entity_key \in DOMAIN result
                                            THEN result[request_entity_key] ELSE <<>>
                                     pushed == Append(old, ResponseFeatureRow(
                                                   Feature(entity_col_ref.view_name,
                                                           row.feature_name),
                                                   row.value, status, row.event_ts))
                                 IN group_rows_from(rs, i + 1,
                                        MapInsert(result, request_entity_key, pushed),
                                        fviews, lmap, t)

group_rows(rs, fviews, lmap, t) == group_rows_from(rs, 1, EmptyMap, fviews, lmap, t)

(***************************************************************************)
(* response_builder.rs: GetOnlineFeatureResponseBuilder.  Its methods take *)
(* the builder by value and return it; panicked records an index out of    *)
(* bounds, after which the builder is not used again.                      *)
(***************************************************************************)
EmptyResults == [values |-> <<>>, statuses |-> <<>>, event_timestamps |-> <<>>]
PushCell(r, value, status, ts) ==
    [values |-> Append(r.values, value),
     statuses |-> Append(r.statuses, status),
     event_timestamps |-> Append(r.event_timestamps, ts)]
\* vec![cell; n] for the three vectors
FilledResults(value, status, ts, n) ==
    [values |-> Repeat(value, n),
     statuses |-> Repeat(status, n),
     event_timestamps |-> Repeat(ts, n)]

with_capacity(num_features, num_values) ==
    [full_feature_names |-> FALSE,
     num_features |-> num_features,
     num_values |-> num_values,
     next_feature_idx |-> 1,
     current_entity_idx |-> 0,
     current_feature_value_idx |-> 0,
     feature_to_idx |-> EmptyMap,
     features |-> <<>>,
     results |-> <<>>,
     panicked |-> FALSE]

set_full_feature_names(b, flag) ==
    [b EXCEPT !.full_feature_names = flag]

\* a column name is the sequence of the pieces format! joins
with_entity_key_name(b, entity_key_name) ==
    IF Len(b.features) <= b.current_entity_idx
    THEN [b EXCEPT !.features = Append(@, <<entity_key_name>>)]
    ELSE [b EXCEPT !.features = SetAt(@, b.current_entity_idx, <<entity_key_name>>)]

next_feature_value_idx(b) ==
    [b EXCEPT !.current_feature_value_idx = @ + 1]

ValueOfEntityId(entity_id_value) ==
    IF entity_id_value[1] = "Int" THEN Int64Val(entity_id_value[2])
    ELSE StringVal(entity_id_value[2])

add_entity_value(b, entity_id_value) ==
    LET value == ValueOfEntityId(entity_id_value)
        results1 == IF Len(b.results) <= b.current_entity_idx
                    THEN Append(b.results, EmptyResults) ELSE b.results
    IN IF b.current_entity_idx >= Len(results1)
       THEN [b EXCEPT !.results = results1, !.panicked = TRUE]
       ELSE [b EXCEPT !.results =
                SetAt(results1, b.current_entity_idx,
                      PushCell(At(results1, b.current_entity_idx),
                               value, "Present", UNIX_EPOCH))]

add_feature_value(b, feature, value, status, event_ts) ==
    LET known == feature \in DOMAIN b.feature_to_idx
        feature_idx == IF known THEN b.feature_to_idx[feature] ELSE b.next_feature_idx
        b1 == IF known THEN b
              ELSE [b EXCEPT !.next_feature_idx = @ + 1,
                             !.feature_to_idx = MapInsert(@, feature, b.next_feature_idx)]
        fresh == Len(b1.results) <= feature_idx
        feature_name == IF b1.full_feature_names
                        THEN <<feature.feature_view_name, ".", feature.feature_name>>
                        ELSE <<feature.feature_name>>
        b2 == IF fresh
              THEN [b1 EXCEPT !.results = Append(@, EmptyResults),
                              !.features = Append(@, feature_name)]
              ELSE b1
    IN IF feature_idx >= Len(b2.results)
       THEN [b2 EXCEPT !.panicked = TRUE]
       ELSE [b2 EXCEPT !.results =
                SetAt(b2.results, feature_idx,
                      PushCell(At(b2.results, feature_idx), value, status, event_ts))]

\* the while loop of add_missing_keys on one column
PadResults(r, idx) ==
    IF Len(r.values) <= idx
    THEN LET n == idx + 1 - Len(r.values)
         IN [values |-> r.values \o Repeat(NoVal, n),
             statuses |-> r.statuses \o Repeat("NotFound", n),
             event_timestamps |-> r.event_timestamps \o Repeat(UNIX_EPOCH, n)]
    ELSE r

add_missing_keys(b) ==
    [b EXCEPT !.results =
        [i \in DOMAIN b.results |-> PadResults(b.results[i], b.current_feature_value_idx)]]

MissingName(b, feature) ==
    IF b.full_feature_names
    THEN <<feature.feature_view_name, "__", feature.feature_name>>
    ELSE <<feature.feature_name>>

\* features: the HashSet in its iteration order
RECURSIVE add_missing_features(_, _)
add_missing_features(b, features) ==
    IF features = <<>> THEN b
    ELSE add_missing_features(
            [b EXCEPT !.features = Append(@, MissingName(b, Head(features))),
                      !.results = Append(@, FilledResults(NoVal, "NotFound", UNIX_EPOCH,
                                                          b.num_values)),
                      !.next_feature_idx = @ + 1],
            Tail(features))

RECURSIVE add_entity_less_features(_, _)
add_entity_less_features(b, rs) ==
    IF rs = <<>> THEN b
    ELSE LET row == Head(rs)
         IN add_entity_less_features(
                [b EXCEPT !.features = Append(@, MissingName(b, row.feature)),
                          !.results = Append(@, FilledResults(row.value, row.status,
                                                              row.event_ts, b.num_values)),
                          !.next_feature_idx = @ + 1],
                Tail(rs))

next_entity(b) ==
    [b EXCEPT !.current_entity_idx = b.next_feature_idx,
              !.next_feature_idx = b.next_feature_idx + 1,
              !.current_feature_value_idx = 0]

build(b) ==
    [metadata |-> [feature_names |-> b.features], results |-> b.results]

(***************************************************************************)
(* response_builder.rs: GetOnlineFeatureResponse::try_from.  The state of  *)
(* its loops is the builder, grouped_rows and feature_set.                 *)
(***************************************************************************)
TryState(b, grouped, fset) == [b |-> b, grouped |-> grouped, fset |-> fset]

\* the loop over feature_values of one key
RECURSIVE add_feature_values(_, _)
add_feature_values(b, feature_values) ==
    IF feature_values = <<>> \/ b.panicked THEN b
    ELSE LET r == Head(feature_values)
         IN add_feature_values(
                add_feature_value(b, r.feature, r.value, r.status, r.event_ts),
                Tail(feature_values))

\* the body of the loop over the keys of one entity name
process_key(st, entity_key_name, key) ==
    LET request_entity_key == RequestEntityIdKey(entity_key_name, key)
        feature_values == IF request_entity_key \in DOMAIN st.grouped
                          THEN st.grouped[request_entity_key] ELSE <<>>
        b1 == add_entity_value(st.b, key)
        b2 == IF b1.panicked THEN b1 ELSE add_feature_values(b1, feature_values)
        b3 == IF b2.panicked THEN b2 ELSE next_feature_value_idx(add_missing_keys(b2))
    IN TryState(b3, MapWithout(st.grouped, request_entity_key),
                st.fset \ {feature_values[i].feature : i \in DOMAIN feature_values})

RECURSIVE process_keys(_, _, _, _)
process_keys(st, entity_key_name, keys, k) ==
    IF k > Len(keys) \/ st.b.panicked THEN st
    ELSE process_keys(process_key(st, entity_key_name, keys[k]), entity_key_name, keys, k + 1)

\* the body of the loop over entity_keys
process_entity(st, entry) ==
    LET st1 == [st EXCEPT !.b = with_entity_key_name(@, entry.name)]
        st2 == process_keys(st1, entry.name, entry.keys, 1)
    IN IF st2.b.panicked THEN st2 ELSE [st2 EXCEPT !.b = next_entity(@)]

RECURSIVE process_entities(_, _, _)
process_entities(st, eks, e) ==
    IF e > Len(eks) \/ st.b.panicked THEN st
    ELSE process_entities(process_entity(st, eks[e]), eks, e + 1)

\* the rows and the features left for the end of try_from
EntityLessRows(st) ==
    IF entity_less_request_entity_key \in DOMAIN st.grouped
    THEN st.grouped[entity_less_request_entity_key] ELSE <<>>
LeftFeatures(st) ==
    st.fset \ {EntityLessRows(st)[i].feature : i \in DOMAIN EntityLessRows(st)}

\* lines 379-387; order is the iteration order of what is left of feature_set
finish(st, order) ==
    build(add_missing_features(add_entity_less_features(st.b, EntityLessRows(st)), order))

new_builder(eks, fset, full) ==
    set_full_feature_names(
        with_capacity(Len(eks) + Cardinality(fset),
                      Max({0} \cup {Len(eks[e].keys) : e \in DOMAIN eks})),
        full)

\* try_from as a function of its arguments, the clock and the order in which
\* the features left are iterated (the first in order that are left)
try_from(eks, rs, fviews, lmap, fset, full, t, order) ==
    LET grouped == group_rows(rs, fviews, lmap, t)
    IN IF grouped[1] # "Ok" THEN grouped
       ELSE LET st == process_entities(
                          TryState(new_builder(eks, fset, full), grouped[2], fset), eks, 1)
            IN IF st.b.panicked THEN <<"Panic", "index out of bounds">>
               ELSE <<"Ok", finish(st, SelectSeq(order, LAMBDA f : f \in LeftFeatures(st)))>>

(***************************************************************************)
(* feature_store_impl.rs: build_lookup_key_mapping.  feature_to_view is    *)
(* the HashMap in its iteration order, a sequence of [feature, view].      *)
(***************************************************************************)
lookup_name_of(view, col, entities_from_request) ==
    IF view.join_key_map # None
    THEN LET join_key_map == view.join_key_map[1]
         IN IF col.name \in DOMAIN join_key_map
               /\ join_key_map[col.name] \in entities_from_request
            THEN join_key_map[col.name]
            ELSE col.name
    ELSE col.name

RECURSIVE insert_columns(_, _, _, _, _)
insert_columns(mapping, view, cols, c, entities_from_request) ==
    IF c > Len(cols) THEN mapping
    ELSE insert_columns(
            MapInsert(mapping, EntityColumnRef(view.name, cols[c].name),
                      lookup_name_of(view, cols[c], entities_from_request)),
            view, cols, c + 1, entities_from_request)

RECURSIVE build_lookup_from(_, _, _, _)
build_lookup_from(mapping, feature_to_view, i, entities_from_request) ==
    IF i > Len(feature_to_view) THEN mapping
    ELSE LET view == feature_to_view[i].view
         IN IF is_entity_less(view)
            THEN build_lookup_from(mapping, feature_to_view, i + 1, entities_from_request)
            ELSE build_lookup_from(
                    insert_columns(mapping, view, view.entity_columns, 1,
                                   entities_from_request),
                    feature_to_view, i + 1, entities_from_request)

build_lookup_key_mapping(feature_to_view, entities_from_request) ==
    build_lookup_from(EmptyMap, feature_to_view, 1, entities_from_request)

(***************************************************************************)
(* model.rs: EntityIdValue::to_proto_value.                                *)
(***************************************************************************)
\* `i as i32`: the low bits in two's complement; the narrow type holds
\* -I32Half .. I32Half - 1
AsI32(i) == ((i + I32Half) % (2 * I32Half)) - I32Half

to_proto_value(entity_id_value, output_type) ==
    IF entity_id_value[1] = "String" THEN <<"Ok", StringVal(entity_id_value[2])>>
    ELSE CASE output_type = "Int32" -> <<"Ok", Int32Val(AsI32(entity_id_value[2]))>>
           [] output_type = "Int64" -> <<"Ok", Int64Val(entity_id_value[2])>>
           [] output_type = "String" -> <<"Ok", StringVal(ToString(entity_id_value[2]))>>
           [] OTHER -> <<"Err", "Unsupported type conversion for number type">>

(***************************************************************************)
(* feature_store_impl.rs: feature_views_to_keys, one iteration of its loop *)
(* over feature_to_view.  An Arc is the pair of its allocation and its     *)
(* content; the allocation made in iteration n is numbered n.              *)
(***************************************************************************)
EntityKey(join_keys, entity_values) ==
    [join_keys |-> join_keys, entity_values |-> entity_values]
ArcOf(ptr, content) == [ptr |-> ptr, keys |-> content]
FeatureWithKeys(feature, feature_type, keys) ==
    [feature |-> feature, feature_type |-> feature_type, entity_keys |-> keys]
LookupKey(origin_col_name, lookup, value_type) ==
    [origin_col_name |-> origin_col_name, lookup |-> lookup, value_type |-> value_type]

entity_key_for_entity_less_feature(ptr) ==
    ArcOf(ptr, <<EntityKey(<<DUMMY_ENTITY_ID>>, <<StringVal(DUMMY_ENTITY_VAL)>>)>>)

\* lines 168-188: Ok with the lookup keys, or the error of the first column
\* that has no mapping
RECURSIVE collect_lookup_keys(_, _, _, _)
collect_lookup_keys(view, lmap, c, acc) ==
    IF c > Len(view.entity_columns) THEN <<"Ok", acc>>
    ELSE LET col == view.entity_columns[c]
             lookup == MapGet(lmap, EntityColumnRef(view.name, col.name))
         IN IF lookup = None
            THEN <<"Err", <<"Missing entity column mapping", col.name, view.name>>>>
            ELSE collect_lookup_keys(view, lmap, c + 1,
                     Append(acc, LookupKey(col.name, lookup[1], col.value_type)))

\* lines 192-200: the first lookup key the request does not hold
missing_lookups(lookup_keys, requested_entity_keys) ==
    {c \in DOMAIN lookup_keys : lookup_keys[c].lookup \notin DOMAIN requested_entity_keys}

\* a column name as the sequence of its pieces, a piece being "," or a run
\* of other characters; one name of the model holds a comma
JoinedName == "driver_id,truck_id"
name_pieces(name) ==
    IF name = JoinedName THEN <<"driver_id", ",", "truck_id">> ELSE <<name>>

\* lines 202-206: the origin column names joined with ","
RECURSIVE cache_key_of(_, _)
cache_key_of(lookup_keys, c) ==
    IF c > Len(lookup_keys) THEN <<>>
    ELSE (IF c = 1 THEN <<>> ELSE <<",">>) \o name_pieces(lookup_keys[c].origin_col_name)
         \o cache_key_of(lookup_keys, c + 1)

\* lines 224-230: the values of key i (a Rust index), column by column
RECURSIVE entity_values_at(_, _, _, _, _)
entity_values_at(lookup_keys, requested_entity_keys, i, c, acc) ==
    IF c > Len(lookup_keys) THEN <<"Ok", acc>>
    ELSE LET values == requested_entity_keys[lookup_keys[c].lookup]
         IN IF i >= Len(values) THEN <<"Panic", "index out of bounds">>
            ELSE LET v == to_proto_value(At(values, i), lookup_keys[c].value_type)
                 IN IF v[1] = "Err" THEN v
                    ELSE entity_values_at(lookup_keys, requested_entity_keys, i, c + 1,
                                          Append(acc, v[2]))

\* lines 222-239: the loop over 0..num_entities
RECURSIVE entity_keys_vec_from(_, _, _, _, _)
entity_keys_vec_from(lookup_keys, requested_entity_keys, num_entities, i, acc) ==
    IF i >= num_entities THEN <<"Ok", acc>>
    ELSE LET entity_values == entity_values_at(lookup_keys, requested_entity_keys, i, 1, <<>>)
             join_keys == [c \in DOMAIN lookup_keys |-> lookup_keys[c].origin_col_name]
         IN IF entity_values[1] # "Ok" THEN entity_values
            ELSE entity_keys_vec_from(lookup_keys, requested_entity_keys, num_entities, i + 1,
                                      Append(acc, EntityKey(join_keys, entity_values[2])))

\* lines 160-249: the body of the loop for one (feature, view); the result
\* is <<"Ok", FeatureWithKeys, key_cache>>, <<"Err", e>> or <<"Panic", e>>
plan_feature(feature, view, requested_entity_keys, lmap, key_cache, ptr) ==
    IF is_entity_less(view)
    THEN <<"Ok", FeatureWithKeys(feature, "EntityLess",
                                 entity_key_for_entity_less_feature(ptr)), key_cache>>
    ELSE LET collected == collect_lookup_keys(view, lmap, 1, <<>>)
         IN IF collected[1] = "Err" THEN collected
            ELSE LET lookup_keys == collected[2]
                     missing == missing_lookups(lookup_keys, requested_entity_keys)
                 IN IF lookup_keys = <<>>
                    THEN <<"Err", <<"Feature view has no entity columns", view.name>>>>
                    ELSE IF missing # {}
                    THEN <<"Err", <<"Missing entity key",
                                    lookup_keys[CHOOSE c \in missing :
                                                   \A d \in missing : c <= d].lookup,
                                    feature.feature_name>>>>
                    ELSE LET cache_key == cache_key_of(lookup_keys, 1)
                         IN IF cache_key \in DOMAIN key_cache
                            THEN <<"Ok", FeatureWithKeys(feature, "Plain",
                                                         key_cache[cache_key]), key_cache>>
                            ELSE LET first_lookup_key == lookup_keys[1].lookup
                                     num_entities ==
                                         Len(requested_entity_keys[first_lookup_key])
                                     vec == entity_keys_vec_from(lookup_keys,
                                                requested_entity_keys, num_entities, 0, <<>>)
                                 IN IF vec[1] # "Ok" THEN vec
                                    ELSE <<"Ok",
                                           FeatureWithKeys(feature, "Plain",
                                                           ArcOf(ptr, vec[2])),
                                           MapInsert(key_cache, cache_key,
                                                     ArcOf(ptr, vec[2]))>>

(***************************************************************************)
(* The registry and the online store the requests run against: a service   *)
(* of three views (driver_daily_stats projected with the join key          *)
(* driver_id aliased to truck_id, global_stats entity-less) and the table  *)
(* rows the store holds for them.                                          *)
(***************************************************************************)
DriverView ==
    [name |-> "driver_hourly_stats",
     features |-> <<Field("conv_rate", "Double"), Field("acc_rate", "Double")>>,
     ttl |-> 3,
     entity_names |-> <<"driver">>,
     entity_columns |-> <<Field("driver_id", "Int64")>>,
     join_key_map |-> None]
AliasView ==
    [name |-> "driver_daily_stats",
     features |-> <<Field("avg_daily_trips", "Int64")>>,
     ttl |-> 1,
     entity_names |-> <<"driver">>,
     entity_columns |-> <<Field("driver_id", "Int64")>>,
     join_key_map |-> Some([c \in {"driver_id"} |-> "truck_id"])]
GlobalView ==
    [name |-> "global_stats",
     features |-> <<Field("total", "Int64")>>,
     ttl |-> 0,
     entity_names |-> <<DUMMY_ENTITY_NAME>>,
     entity_columns |-> <<>>,
     join_key_map |-> None]
RegistryViews == <<DriverView, AliasView, GlobalView>>
EntityNames == {"driver_id", "truck_id"}
\* the instant at which the requests are served
ServingTime == MaxKeys + 1

\* a request id list up to the renaming of its ids (the builder only compares
\* ids for equality): every new id is the smallest unused one
Canonical(s) ==
    \A i \in DOMAIN s : s[i] <= 1 + Max({0} \cup {s[j] : j \in 1..(i - 1)})
IdVectors ==
    {[i \in DOMAIN s |-> IdInt(s[i])] : s \in {x \in SeqsUpTo(1..MaxKeys, MaxKeys) : Canonical(x)}}

Entry(name, keys) == [name |-> name, keys |-> keys]
TotalKeys(eks) ==
    IF Len(eks) = 0 THEN 0
    ELSE IF Len(eks) = 1 THEN Len(eks[1].keys)
    ELSE Len(eks[1].keys) + Len(eks[2].keys)
\* the request's entities as the HashMap iterates them
Requests ==
    {eks \in SeqsUpTo({Entry(n, k) : n \in EntityNames, k \in IdVectors}, 2) :
        /\ \A i, j \in DOMAIN eks : i # j => eks[i].name # eks[j].name
        /\ TotalKeys(eks) <= MaxKeys}
NamesOf(eks) == {eks[e].name : e \in DOMAIN eks}
KeysOf(eks, name) ==
    IF name \in NamesOf(eks)
    THEN (CHOOSE e \in Range(eks) : e.name = name).keys ELSE <<>>

\* a view resolves for a request when the planner finds all its lookup keys
Resolvable(view, names) ==
    \/ is_entity_less(view)
    \/ \A c \in DOMAIN view.entity_columns :
          lookup_name_of(view, view.entity_columns[c], names) \in names
ViewEntries(view) ==
    [i \in DOMAIN view.features |->
        [feature |-> Feature(view.name, view.features[i].name), view |-> view]]
RECURSIVE ResolveFrom(_, _)
ResolveFrom(v, names) ==
    IF v > Len(RegistryViews) THEN <<>>
    ELSE (IF Resolvable(RegistryViews[v], names) THEN ViewEntries(RegistryViews[v]) ELSE <<>>)
         \o ResolveFrom(v + 1, names)
\* feature_to_view of get_online_features
FeatureToView(names) == ResolveFrom(1, names)
ViewNameToView(ftv) ==
    [n \in {ftv[i].view.name : i \in DOMAIN ftv} |->
        (CHOOSE e \in Range(ftv) : e.view.name = n).view]

\* the table row of the store for a feature and an entity id
StoreValue(feature_name, id) ==
    CASE feature_name = "conv_rate" -> DoubleVal(10 + id)
      [] feature_name = "acc_rate" -> NoVal
      [] feature_name = "avg_daily_trips" -> Int64Val(20 + id)
      [] OTHER -> Int64Val(99)
StoreRow(entry, id) ==
    OnlineStoreRow(entry.view.name,
                   <<entry.view.entity_columns[1].name>>,
                   <<to_proto_value(id, entry.view.entity_columns[1].value_type)[2]>>,
                   entry.feature.feature_name,
                   StoreValue(entry.feature.feature_name, id[2]),
                   id[2])
EntityLessStoreRow(entry) ==
    OnlineStoreRow(entry.view.name, <<DUMMY_ENTITY_ID>>, <<StringVal(DUMMY_ENTITY_VAL)>>,
                   entry.feature.feature_name,
                   StoreValue(entry.feature.feature_name, 0), 2)
\* the rows the store can return for a request: those of the requested keys
StoreRows(eks, ftv, lmap) ==
    UNION {IF is_entity_less(entry.view) THEN {EntityLessStoreRow(entry)}
           ELSE {StoreRow(entry, id) :
                    id \in Range(KeysOf(eks,
                              lmap[EntityColumnRef(entry.view.name,
                                                   entry.view.entity_columns[1].name)]))}
           : entry \in Range(ftv)}
RowLists(S) == {rs \in SeqsUpTo(S, MaxRows) : Injective(rs)}

(***************************************************************************)
(* Specification Spec: GetOnlineFeatureResponse::try_from, step by step,   *)
(* for every request, every list of rows the store returns for it and      *)
(* every iteration order of the request's entity map.                      *)
(***************************************************************************)
StatusIdle ==
    /\ st_value = NoVal /\ st_view = None /\ st_event_ts = UNIX_EPOCH
    /\ st_now = UNIX_EPOCH /\ st_status = "Invalid"
PlannerIdle ==
    /\ pl_entities = <<>> /\ pl_views = <<>> /\ pl_mapping = EmptyMap
    /\ pl_cache = EmptyMap /\ pl_result = <<>> /\ pl_i = 0 /\ pl_error = None
    /\ pl_pc = "idle"
BuilderIdle ==
    /\ entity_keys = <<>> /\ rows = <<>> /\ feature_views = EmptyMap
    /\ lookup_mapping = EmptyMap /\ feature_set = {} /\ full_feature_names = FALSE
    /\ grouped_rows = EmptyMap /\ builder = with_capacity(0, 0)
    /\ ei = 0 /\ ki = 0 /\ pc = "idle" /\ response = <<"None">> /\ iter_order = <<>>
ServeIdle ==
    /\ sv_request = <<>> /\ sv_store_calls = 0 /\ sv_rows = <<>>
    /\ sv_result = <<"None">> /\ sv_pc = "idle"
CacheIdle ==
    /\ cr_inner = 0 /\ cr_created_at = UNIX_EPOCH /\ cr_ttl = 0 /\ cr_live = {}
    /\ rf_pc = "idle" /\ rf_next = 0 /\ rf_new = 0 /\ rf_last = "none"
    /\ rd_pc = "idle" /\ rd_request = <<>> /\ rd_names = <<>> /\ rd_registry = 0
    /\ rd_i = 0 /\ rd_result = <<"None">> /\ rd_warned = FALSE
    /\ cr_created_by = 0 /\ rd_created_by = 0
CodecIdle ==
    /\ kc_key = <<>> /\ kc_version = "V3" /\ kc_bytes = <<"None">>
    /\ kc_decoded = <<"None">> /\ kc_pc = "idle"
StoreIdle ==
    /\ st_kind = "none" /\ st_cells = <<>> /\ st_tables = <<>> /\ st_features = <<>>
    /\ st_view_to_keys = <<>> /\ st_view_features = <<>> /\ st_tasks = <<>>
    /\ st_feature_rows = <<>> /\ st_result = <<"None">> /\ st_pc = "idle"
AdapterIdle == ad_surface = "none" /\ ad_reply = <<"None">>
PoolIdle == pool_idle = {} /\ pool_calls = <<>>
TailIdle == AdapterIdle /\ PoolIdle
ExtIdle == ServeIdle /\ CacheIdle /\ CodecIdle /\ StoreIdle /\ TailIdle

Init ==
    /\ entity_keys \in Requests
    /\ LET ftv == FeatureToView(NamesOf(entity_keys))
       IN /\ feature_views = ViewNameToView(ftv)
          /\ lookup_mapping = build_lookup_key_mapping(ftv, NamesOf(entity_keys))
          /\ feature_set = {ftv[i].feature : i \in DOMAIN ftv}
          /\ rows \in RowLists(StoreRows(entity_keys, ftv,
                                         build_lookup_key_mapping(ftv, NamesOf(entity_keys))))
    /\ full_feature_names \in BOOLEAN
    /\ now = ServingTime
    /\ grouped_rows = EmptyMap
    /\ builder = with_capacity(0, 0)
    /\ ei = 0 /\ ki = 0
    /\ pc = "start"
    /\ response = <<"None">>
    /\ iter_order = <<>>
    /\ StatusIdle /\ PlannerIdle /\ ExtIdle

\* lines 351-357: group_rows, then the builder is created
GroupRows ==
    /\ pc = "start"
    /\ LET grouped == group_rows(rows, feature_views, lookup_mapping, now)
       IN IF grouped[1] = "Ok"
          THEN /\ grouped_rows' = grouped[2]
               /\ builder' = new_builder(entity_keys, feature_set, full_feature_names)
               /\ pc' = "entity"
               /\ response' = response
          ELSE /\ response' = grouped
               /\ pc' = IF grouped[1] = "Panic" THEN "panicked" ELSE "done"
               /\ UNCHANGED <<grouped_rows, builder>>
    /\ UNCHANGED <<entity_keys, rows, feature_views, lookup_mapping, feature_set,
                   full_feature_names, ei, ki, iter_order>>
    /\ UNCHANGED <<now, status_vars, planner_vars, ext_vars>>

\* line 359-360: the outer loop takes the next entity name
BeginEntity ==
    /\ pc = "entity"
    /\ ei < Len(entity_keys)
    /\ builder' = with_entity_key_name(builder, entity_keys[ei + 1].name)
    /\ ki' = 0
    /\ pc' = "keys"
    /\ UNCHANGED <<entity_keys, rows, feature_views, lookup_mapping, feature_set,
                   full_feature_names, grouped_rows, ei, response, iter_order>>
    /\ UNCHANGED <<now, status_vars, planner_vars, ext_vars>>

\* lines 361-375: the inner loop takes the next key of the current name
ProcessKey ==
    /\ pc = "keys"
    /\ ki < Len(entity_keys[ei + 1].keys)
    /\ LET st == process_key(TryState(builder, grouped_rows, feature_set),
                             entity_keys[ei + 1].name, entity_keys[ei + 1].keys[ki + 1])
       IN /\ builder' = st.b
          /\ grouped_rows' = st.grouped
          /\ feature_set' = st.fset
          /\ IF st.b.panicked
             THEN pc' = "panicked" /\ response' = <<"Panic", "index out of bounds">>
             ELSE pc' = pc /\ response' = response
    /\ ki' = ki + 1
    /\ UNCHANGED <<entity_keys, rows, feature_views, lookup_mapping,
                   full_feature_names, ei, iter_order>>
    /\ UNCHANGED <<now, status_vars, planner_vars, ext_vars>>

\* line 376: the keys of the current name are exhausted
NextEntity ==
    /\ pc = "keys"
    /\ ki = Len(entity_keys[ei + 1].keys)
    /\ builder' = next_entity(builder)
    /\ ei' = ei + 1
    /\ pc' = "entity"
    /\ UNCHANGED <<entity_keys, rows, feature_views, lookup_mapping, feature_set,
                   full_feature_names, grouped_rows, ki, response, iter_order>>
    /\ UNCHANGED <<now, status_vars, planner_vars, ext_vars>>

\* lines 379-387: entity-less rows, the features left, build
Finish ==
    /\ pc = "entity"
    /\ ei = Len(entity_keys)
    /\ LET st == TryState(builder, grouped_rows, feature_set)
       IN \E order \in Perms(LeftFeatures(st)) :
             /\ response' = <<"Ok", finish(st, order)>>
             /\ iter_order' = order
             /\ feature_set' = LeftFeatures(st)
             /\ grouped_rows' = MapWithout(grouped_rows, entity_less_request_entity_key)
             /\ builder' = add_missing_features(
                               add_entity_less_features(builder, EntityLessRows(st)), order)
    /\ pc' = "done"
    /\ UNCHANGED <<entity_keys, rows, feature_views, lookup_mapping,
                   full_feature_names, ei, ki>>
    /\ UNCHANGED <<now, status_vars, planner_vars, ext_vars>>

Next == GroupRows \/ BeginEntity \/ ProcessKey \/ NextEntity \/ Finish

Spec == Init /\ [][Next]_vars

(***************************************************************************)
(* What the claims about try_from speak of.                                *)
(***************************************************************************)
Returned == pc = "done" /\ response[1] = "Ok"
Ended == pc \in {"done", "panicked"}
Resp == response[2]
ColumnNames == Resp.metadata.feature_names
Columns == Resp.results

\* the resolved feature set try_from was called with
ResolvedFeatures ==
    UNION {{Feature(feature_views[n].name, feature_views[n].features[i].name) :
               i \in DOMAIN feature_views[n].features} : n \in DOMAIN feature_views}
ViewOf(f) == feature_views[f.feature_view_name]
PlainFeatures == {f \in ResolvedFeatures : ~is_entity_less(ViewOf(f))}
\* the request entity name whose rows a plain feature is aligned with
OwnerOf(f) ==
    lookup_mapping[EntityColumnRef(f.feature_view_name, ViewOf(f).entity_columns[1].name)]
BroadcastLength == Max({0} \cup {Len(entity_keys[e].keys) : e \in DOMAIN entity_keys})

NamesOfFeature(f) ==
    IF full_feature_names
    THEN {<<f.feature_view_name, ".", f.feature_name>>,
          <<f.feature_view_name, "__", f.feature_name>>}
    ELSE {<<f.feature_name>>}
EntityColumnNames == {<<n>> : n \in NamesOf(entity_keys)}
\* the positions of the response that carry a feature, and an entity name
ColumnsOfFeature(f) == {j \in DOMAIN ColumnNames : ColumnNames[j] \in NamesOfFeature(f)}
ColumnsOfEntity(name) == {j \in DOMAIN ColumnNames : ColumnNames[j] = <<name>>}

Cell(value, status, ts) == [value |-> value, status |-> status, event_timestamp |-> ts]
HasCell(j, i) ==
    /\ j \in DOMAIN Columns
    /\ i \in DOMAIN Columns[j].values
    /\ i \in DOMAIN Columns[j].statuses
    /\ i \in DOMAIN Columns[j].event_timestamps
CellAt(j, i) ==
    Cell(Columns[j].values[i], Columns[j].statuses[i], Columns[j].event_timestamps[i])
Uniform(j) ==
    /\ Len(Columns[j].values) = Len(Columns[j].statuses)
    /\ Len(Columns[j].values) = Len(Columns[j].event_timestamps)

\* the rows of the store for a feature and a request id
RowsFor(f, key) ==
    {i \in DOMAIN rows :
        /\ rows[i].feature_view_name = f.feature_view_name
        /\ rows[i].feature_name = f.feature_name
        /\ val_to_entity_id_value(rows[i].entity_key.entity_values[1]) = <<"Ok", key>>}
CellOfRow(row) ==
    Cell(row.value,
         get_feature_status(row.value, MapGet(feature_views, row.feature_view_name),
                            row.event_ts, now),
         row.event_ts)
NotFoundCell == Cell(NoVal, "NotFound", UNIX_EPOCH)
ExpectedCell(f, key) ==
    IF RowsFor(f, key) = {} THEN NotFoundCell
    ELSE CellOfRow(rows[CHOOSE i \in RowsFor(f, key) : TRUE])
\* the request gives every entity name at least one id
NoEmptyVector == \A e \in DOMAIN entity_keys : entity_keys[e].keys # <<>>
EntityLessRowIndexes ==
    {i \in DOMAIN rows : rows[i].entity_key.join_keys = <<DUMMY_ENTITY_ID>>}

(***************************************************************************)
(* C1: with one entity name of pairwise distinct ids, cell i of a          *)
(* feature's column is the store row of the id at request row i, and       *)
(* (null, NotFound, epoch) when the store returned no row for that id.     *)
(***************************************************************************)
C1_CellsFollowStoreRows ==
    (Returned /\ Len(entity_keys) = 1 /\ Injective(entity_keys[1].keys)) =>
        \A f \in PlainFeatures :
            \E j \in ColumnsOfFeature(f) :
                \A i \in DOMAIN entity_keys[1].keys :
                    HasCell(j, i) /\ CellAt(j, i) = ExpectedCell(f, entity_keys[1].keys[i])

(***************************************************************************)
(* C2: every column has three vectors of one length, the number of ids     *)
(* the request gives for the entity name that owns the column (the         *)
(* broadcast length for an entity-less feature).  Stated for the requests  *)
(* that give every entity name at least one id.                            *)
(***************************************************************************)
OwnerLength(j) ==
    IF ColumnNames[j] \in EntityColumnNames
    THEN Len(KeysOf(entity_keys, ColumnNames[j][1]))
    ELSE LET f == CHOOSE g \in ResolvedFeatures : ColumnNames[j] \in NamesOfFeature(g)
         IN IF is_entity_less(ViewOf(f)) THEN BroadcastLength
            ELSE Len(KeysOf(entity_keys, OwnerOf(f)))
C2_ColumnsAligned ==
    (Returned /\ NoEmptyVector) =>
        \A j \in DOMAIN Columns :
            /\ Uniform(j)
            /\ j \in DOMAIN ColumnNames
            /\ Len(Columns[j].values) = OwnerLength(j)

(***************************************************************************)
(* C3: try_from returns a response (no panic) with as many names as        *)
(* columns, one per entity name and one per resolved feature.  Stated for  *)
(* the calls whose rows hold no entity-less row.                           *)
(***************************************************************************)
C3_OneColumnPerNameAndFeature ==
    (Ended /\ EntityLessRowIndexes = {}) =>
        /\ response[1] = "Ok"
        /\ Len(ColumnNames) = Len(Columns)
        /\ Len(Columns) = Len(entity_keys) + Cardinality(ResolvedFeatures)

(***************************************************************************)
(* C4: the column of an entity name holds exactly the request's ids of     *)
(* that name, each Present at the epoch, and no other cell.  Stated for    *)
(* the requests that give every entity name at least one id.               *)
(***************************************************************************)
C4_EntityColumnsVerbatim ==
    (Returned /\ NoEmptyVector) =>
        \A e \in DOMAIN entity_keys :
            \E j \in ColumnsOfEntity(entity_keys[e].name) :
                /\ j \in DOMAIN Columns
                /\ Uniform(j)
                /\ Len(Columns[j].values) = Len(entity_keys[e].keys)
                /\ \A i \in DOMAIN entity_keys[e].keys :
                      /\ HasCell(j, i)
                      /\ CellAt(j, i) = Cell(ValueOfEntityId(entity_keys[e].keys[i]),
                                             "Present", UNIX_EPOCH)

(***************************************************************************)
(* C7: the first E columns are the entity columns, every feature column    *)
(* comes after them.  Stated for the requests that give every entity name  *)
(* at least one id.                                                        *)
(***************************************************************************)
C7_EntityColumnsFirst ==
    (Returned /\ NoEmptyVector) =>
        \A j \in DOMAIN ColumnNames :
            (j <= Len(entity_keys)) <=> (ColumnNames[j] \in EntityColumnNames)

(***************************************************************************)
(* C8: try_from gives the same result for every permutation of the rows    *)
(* (same request, feature set, lookup mapping, clock and hash order).      *)
(***************************************************************************)
C8_RowOrderIrrelevant ==
    Ended =>
        \A p \in PermsOfSeq(rows) :
            try_from(entity_keys, p, feature_views, lookup_mapping, ResolvedFeatures,
                     full_feature_names, now, iter_order) = response

(***************************************************************************)
(* C9: a row of an entity-less feature makes the request succeed with one  *)
(* column for the feature, of the broadcast length, every cell the row.    *)
(***************************************************************************)
C9_EntityLessBroadcast ==
    (Ended /\ EntityLessRowIndexes # {}) =>
        /\ response[1] = "Ok"
        /\ \A r \in EntityLessRowIndexes :
              LET f == Feature(rows[r].feature_view_name, rows[r].feature_name)
              IN /\ Cardinality(ColumnsOfFeature(f)) = 1
                 /\ \A j \in ColumnsOfFeature(f) :
                       /\ j \in DOMAIN Columns
                       /\ Uniform(j)
                       /\ Len(Columns[j].values) = BroadcastLength
                       /\ \A i \in 1..BroadcastLength :
                             HasCell(j, i) /\ CellAt(j, i) = CellOfRow(rows[r])

\* the steps of Spec compute try_from
StepsComputeTryFrom ==
    Ended =>
        try_from(entity_keys, rows, feature_views, lookup_mapping, ResolvedFeatures,
                 full_feature_names, now, iter_order) = response

(***************************************************************************)
(* Specification SpecStatus: get_feature_status called on a store row      *)
(* while the clock runs.  The view of the row is read from a registry      *)
(* entry that declares a TTL of some seconds, or none.                     *)
(***************************************************************************)
ProtoTtls == {None} \cup {Some(s) : s \in (0 - 1)..MaxTtl}
StatusViews == {[DriverView EXCEPT !.ttl = ttl_of_proto(p)] : p \in ProtoTtls}

InitStatus ==
    /\ now \in 0..MaxTime
    /\ st_value \in {NoVal, DoubleVal(1)}
    /\ st_view \in {None} \cup {Some(v) : v \in StatusViews}
    /\ st_event_ts \in 0..MaxTime
    /\ st_now = UNIX_EPOCH
    /\ st_status = "Invalid"
    /\ BuilderIdle /\ PlannerIdle /\ ExtIdle

\* time passes
Tick ==
    /\ now < MaxTime
    /\ now' = now + 1
    /\ UNCHANGED <<builder_vars, status_vars, planner_vars, ext_vars>>

\* response_builder.rs lines 50-70
Classify ==
    /\ st_now' = now
    /\ st_status' = get_feature_status(st_value, st_view, st_event_ts, now)
    /\ UNCHANGED <<st_value, st_view, st_event_ts>>
    /\ UNCHANGED <<builder_vars, now, planner_vars, ext_vars>>

NextStatus == Tick \/ Classify

SpecStatus == InitStatus /\ [][NextStatus]_vars

Classified == st_status # "Invalid"

(***************************************************************************)
(* C5: for a view of non-zero TTL the status is NullValue when the value   *)
(* is absent, else OutsideMaxAge exactly when now > event_ts + ttl, else   *)
(* Present; a row whose age equals the TTL is Present.                     *)
(***************************************************************************)
C5_StatusOfNonZeroTtl ==
    (Classified /\ st_view # None /\ st_view[1].ttl # 0) =>
        st_status = IF st_value = NoVal THEN "NullValue"
                    ELSE IF st_now > st_event_ts + st_view[1].ttl THEN "OutsideMaxAge"
                    ELSE "Present"

\* a present value whose age is exactly the TTL has been classified
C5_Witness ==
    /\ Classified /\ st_view # None /\ st_view[1].ttl # 0
    /\ st_value # NoVal
    /\ st_now = st_event_ts + st_view[1].ttl
    /\ st_status = "Present"

(***************************************************************************)
(* C6: a present value of a view whose TTL is zero is Present however old  *)
(* the row is.                                                             *)
(***************************************************************************)
C6_ZeroTtlNeverExpires ==
    (Classified /\ st_view # None /\ st_view[1].ttl = 0 /\ st_value # NoVal) =>
        st_status = "Present"

(***************************************************************************)
(* Specification SpecPlanner: build_lookup_key_mapping followed by         *)
(* feature_views_to_keys, one entry of feature_to_view per step, for every *)
(* request and every iteration order of the resolved features.             *)
(***************************************************************************)
\* a view of the same entity column as DriverView, declared Int32
RankView ==
    [name |-> "driver_rank",
     features |-> <<Field("rank", "Int64")>>,
     ttl |-> 0,
     entity_names |-> <<"driver">>,
     entity_columns |-> <<Field("driver_id", "Int32")>>,
     join_key_map |-> None]
\* a view of two entity columns
PairView ==
    [name |-> "trip_stats",
     features |-> <<Field("trips", "Int64")>>,
     ttl |-> 0,
     entity_names |-> <<"driver", "truck">>,
     entity_columns |-> <<Field("driver_id", "Int64"), Field("truck_id", "String")>>,
     join_key_map |-> None]
PlannerEntries ==
    {[feature |-> Feature(v.name, v.features[1].name), view |-> v] :
        v \in {DriverView, AliasView, GlobalView, RankView, PairView}}
\* feature_to_view in the order the HashMap iterates it
PlannerServices == {ftv \in SeqsUpTo(PlannerEntries, MaxFeatures) : Injective(ftv)}
\* the second id does not fit the scaled i32
PlannerIds == {IdInt(1), IdInt(I32Half + 1)}
PlannerVectors == SeqsUpTo(PlannerIds, MaxVector)
PlannerRequests ==
    UNION {[names -> PlannerVectors] : names \in SUBSET EntityNames}

InitPlanner ==
    /\ pl_entities \in PlannerRequests
    /\ pl_views \in PlannerServices
    /\ pl_mapping = EmptyMap
    /\ pl_cache = EmptyMap
    /\ pl_result = <<>>
    /\ pl_i = 0
    /\ pl_error = None
    /\ pl_pc = "start"
    /\ now = ServingTime
    /\ BuilderIdle /\ StatusIdle /\ ExtIdle

\* get_online_features lines 42-49
BuildMapping ==
    /\ pl_pc = "start"
    /\ pl_mapping' = build_lookup_key_mapping(pl_views, DOMAIN pl_entities)
    /\ pl_pc' = "loop"
    /\ UNCHANGED <<pl_entities, pl_views, pl_cache, pl_result, pl_i, pl_error>>
    /\ UNCHANGED <<builder_vars, now, status_vars, ext_vars>>

\* feature_views_to_keys lines 160-249: one iteration
PlanFeature ==
    /\ pl_pc = "loop"
    /\ pl_i < Len(pl_views)
    /\ LET entry == pl_views[pl_i + 1]
           planned == plan_feature(entry.feature, entry.view, pl_entities, pl_mapping,
                                   pl_cache, pl_i + 1)
       IN IF planned[1] = "Ok"
          THEN /\ pl_result' = Append(pl_result, planned[2])
               /\ pl_cache' = planned[3]
               /\ pl_pc' = pl_pc
               /\ pl_error' = pl_error
          ELSE /\ pl_error' = Some(planned[2])
               /\ pl_pc' = IF planned[1] = "Panic" THEN "panicked" ELSE "err"
               /\ UNCHANGED <<pl_result, pl_cache>>
    /\ pl_i' = pl_i + 1
    /\ UNCHANGED <<pl_entities, pl_views, pl_mapping>>
    /\ UNCHANGED <<builder_vars, now, status_vars, ext_vars>>

\* feature_views_to_keys line 250
PlanReturn ==
    /\ pl_pc = "loop"
    /\ pl_i = Len(pl_views)
    /\ pl_pc' = "ok"
    /\ UNCHANGED <<pl_entities, pl_views, pl_mapping, pl_cache, pl_result, pl_i, pl_error>>
    /\ UNCHANGED <<builder_vars, now, status_vars, ext_vars>>

NextPlanner == BuildMapping \/ PlanFeature \/ PlanReturn

SpecPlanner == InitPlanner /\ [][NextPlanner]_vars

Planned == pl_pc = "ok"

(***************************************************************************)
(* C10: for every resolved view V that is not entity-less the planner      *)
(* emits n_V keys in request order; key i has V's entity column names as   *)
(* join keys and as values the request vector at lookup_key(V, C) at index *)
(* i, coerced to C's declared type, whatever the other views are.          *)
(***************************************************************************)
\* the alias of C in V's join-key map when the request has it, else C's name
LookupKeyOf(V, C) ==
    IF V.join_key_map # None
       /\ C.name \in DOMAIN V.join_key_map[1]
       /\ V.join_key_map[1][C.name] \in DOMAIN pl_entities
    THEN V.join_key_map[1][C.name]
    ELSE C.name
KeysOwedTo(V) ==
    LET cols == V.entity_columns
        n_V == Len(pl_entities[LookupKeyOf(V, cols[1])])
    IN [i \in 1..n_V |->
           EntityKey([c \in DOMAIN cols |-> cols[c].name],
                     [c \in DOMAIN cols |->
                         to_proto_value(pl_entities[LookupKeyOf(V, cols[c])][i],
                                        cols[c].value_type)[2]])]
C10_KeysPerView ==
    Planned =>
        \A r \in DOMAIN pl_result :
            ~is_entity_less(pl_views[r].view) =>
                /\ pl_result[r].feature = pl_views[r].feature
                /\ pl_result[r].entity_keys.keys = KeysOwedTo(pl_views[r].view)

(***************************************************************************)
(* C11: when the request vectors a view's entity columns map to differ in  *)
(* length, feature_views_to_keys returns an error: it neither panics nor   *)
(* returns keys.                                                           *)
(***************************************************************************)
PlanEnded == pl_pc \in {"ok", "err", "panicked"}
Ragged(V) ==
    /\ ~is_entity_less(V)
    /\ \A c \in DOMAIN V.entity_columns :
          LookupKeyOf(V, V.entity_columns[c]) \in DOMAIN pl_entities
    /\ \E c, d \in DOMAIN V.entity_columns :
          Len(pl_entities[LookupKeyOf(V, V.entity_columns[c])])
              # Len(pl_entities[LookupKeyOf(V, V.entity_columns[d])])
C11_RaggedVectorsRejected ==
    (PlanEnded /\ \E r \in DOMAIN pl_views : Ragged(pl_views[r].view)) =>
        pl_pc = "err"

(***************************************************************************)
(* error.rs: FeastCoreError; the other errors are anyhow messages.         *)
(***************************************************************************)
feature_service_not_found(name) == <<"FeatureServiceNotFound", name>>
feature_view_not_found(feature_view_name) ==
    <<"FeatureViewNotFound", feature_view_name, None>>
feature_view_not_found_for_service(feature_view_name, service_name) ==
    <<"FeatureViewNotFound", feature_view_name, Some(service_name)>>
is_not_found(e) == e[1] \in {"FeatureServiceNotFound", "FeatureViewNotFound"}
OnDemandNotSupported == <<"OnDemand feature view for now is not supported">>

(***************************************************************************)
(* model.rs: the request's feature strings.  A string is the sequence of   *)
(* its pieces, a piece being ":" or a run of other characters; the strings *)
(* of the model have at most one piece on each side of their first colon.  *)
(***************************************************************************)
\* str::find(':'): the Rust index of the first colon
find_colon(str) ==
    IF \E i \in DOMAIN str : str[i] = ":"
    THEN Some((CHOOSE i \in DOMAIN str : str[i] = ":" /\ \A j \in 1..(i - 1) : str[j] # ":") - 1)
    ELSE None
\* the text of a string of at most one piece
TextOf(pieces) == IF pieces = <<>> THEN "" ELSE pieces[1]
entity_feature(feature_name) == Feature("", feature_name)
\* TryFrom<&str> for Feature
feature_try_from(str) ==
    IF str = <<>> THEN <<"Err", <<"Empty feature string">>>>
    ELSE LET idx == find_colon(str)
         IN IF idx # None
            THEN <<"Ok", Feature(TextOf(SubSeq(str, 1, idx[1])),
                                 TextOf(SubSeq(str, idx[1] + 2, Len(str))))>>
            ELSE <<"Ok", entity_feature(TextOf(str))>>

\* From<&GetOnlineFeaturesRequest> for RequestedFeatures
requested_features_from(request) ==
    IF request.feature_service # None
    THEN <<"FeatureService", request.feature_service[1]>>
    ELSE IF request.features # None
    THEN <<"FeatureNames", request.features[1]>>
    ELSE <<"FeatureNames", <<>>>>

(***************************************************************************)
(* file_registry.rs: FileFeatureRegistry over a FeatureRegistry.           *)
(***************************************************************************)
FeatureProjection(feature_view_name, features, join_key_map) ==
    [feature_view_name |-> feature_view_name, features |-> features,
     join_key_map |-> join_key_map]
\* a service after its projections were resolved against the feature views
\* of the registry it was loaded with: every projection whose view is there
\* gives a resolved view, the base view carrying the projection's join-key
\* map; the views of the others are listed as missing
resolved_projections_of(projections, registry_views) ==
    LET found == SelectSeq(projections,
                           LAMBDA p : p.feature_view_name \in DOMAIN registry_views)
    IN [i \in DOMAIN found |->
           [feature_view |->
               [registry_views[found[i].feature_view_name]
                   EXCEPT !.join_key_map =
                       IF DOMAIN found[i].join_key_map = {} THEN @
                       ELSE Some(found[i].join_key_map)]]]
missing_feature_views_of(projections, registry_views) ==
    LET lost == SelectSeq(projections,
                          LAMBDA p : p.feature_view_name \notin DOMAIN registry_views)
    IN [i \in DOMAIN lost |-> lost[i].feature_view_name]
FeatureService(name, projections, registry_views) ==
    [name |-> name, projections |-> projections,
     resolved_projections |-> resolved_projections_of(projections, registry_views),
     missing_feature_views |-> missing_feature_views_of(projections, registry_views)]

\* Vec<String>::join(", ") as the list of the joined names
join_names(names) == names

\* lines 88-94 of feature_views_from_service: the features of every resolved
\* projection
RECURSIVE insert_resolved(_, _, _)
insert_resolved(result, resolved_projections, r) ==
    IF r > Len(resolved_projections) THEN result
    ELSE LET view == resolved_projections[r].feature_view
             added == [f \in {Feature(view.name, view.features[i].name) :
                                 i \in DOMAIN view.features} |-> view]
         IN insert_resolved([f \in DOMAIN result \cup DOMAIN added |->
                                IF f \in DOMAIN added THEN added[f] ELSE result[f]],
                            resolved_projections, r + 1)
\* lines 79-95: the loop over the projections from projection p on
RECURSIVE service_loop(_, _, _, _)
service_loop(registry, service, p, result) ==
    IF p > Len(service.projections) THEN <<"Ok", result>>
    ELSE IF service.projections[p].feature_view_name
                \in DOMAIN registry.on_demand_feature_views
    THEN <<"Err", OnDemandNotSupported>>
    ELSE service_loop(registry, service, p + 1,
                      insert_resolved(result, service.resolved_projections, 1))
feature_views_from_service(registry, service_name) ==
    IF service_name \notin DOMAIN registry.feature_services
    THEN <<"Err", feature_service_not_found(service_name)>>
    ELSE LET service == registry.feature_services[service_name]
         IN IF Len(service.resolved_projections) # Len(service.projections)
            THEN <<"Err", feature_view_not_found_for_service(
                              join_names(service.missing_feature_views), service_name)>>
            ELSE service_loop(registry, service, 1, EmptyMap)

\* feature_views_from_names leaving out the names whose view is absent
RECURSIVE names_loop_skipping_absent(_, _, _, _)
names_loop_skipping_absent(registry, names, n, result) ==
    IF n > Len(names) THEN <<"Ok", result>>
    ELSE LET req_feature == names[n]
             feature_view_name == req_feature.feature_view_name
         IN IF feature_view_name \in DOMAIN registry.on_demand_feature_views
            THEN <<"Err", OnDemandNotSupported>>
            ELSE IF feature_view_name \notin DOMAIN registry.feature_views
            THEN names_loop_skipping_absent(registry, names, n + 1, result)
            ELSE names_loop_skipping_absent(registry, names, n + 1,
                     MapInsert(result, req_feature,
                               registry.feature_views[feature_view_name]))
\* the iterator of feature_views_from_names collected into a Result: the map
\* of all names, or the error of the first name that has one
\* lines 103-123: the closure applied to one name, its pair put into result
names_step(registry, req_feature, result) ==
    LET feature_view_name == req_feature.feature_view_name
    IN IF feature_view_name \in DOMAIN registry.on_demand_feature_views
       THEN <<"Err", OnDemandNotSupported>>
       ELSE IF feature_view_name \notin DOMAIN registry.feature_views
       THEN <<"Err", feature_view_not_found(feature_view_name)>>
       ELSE <<"Ok", MapInsert(result, req_feature,
                              registry.feature_views[feature_view_name])>>
RECURSIVE names_loop(_, _, _, _)
names_loop(registry, names, n, result) ==
    IF n > Len(names) THEN <<"Ok", result>>
    ELSE LET stepped == names_step(registry, names[n], result)
         IN IF stepped[1] = "Err" THEN stepped
            ELSE names_loop(registry, names, n + 1, stepped[2])
feature_views_from_names(registry, names) == names_loop(registry, names, 1, EmptyMap)

get_feature_views(registry, requested_features) ==
    IF requested_features[1] = "FeatureService"
    THEN feature_views_from_service(registry, requested_features[2])
    ELSE LET names == requested_features[2]
             parsed == [i \in DOMAIN names |-> feature_try_from(names[i])]
             bad_requests == SelectSeq(parsed, LAMBDA r : r[1] = "Err")
             good == SelectSeq(parsed, LAMBDA r : r[1] = "Ok")
             parsed_requested_features == [i \in DOMAIN good |-> good[i][2]]
         IN IF bad_requests # <<>>
            THEN <<"Err", <<"Error while requested next features",
                            [i \in DOMAIN bad_requests |-> bad_requests[i][2]]>>>>
            ELSE feature_views_from_names(registry, parsed_requested_features)

\* FeatureRegistryService::request_to_view_keys of FileFeatureRegistry
request_to_view_keys(registry, request) ==
    get_feature_views(registry, requested_features_from(request))

(***************************************************************************)
(* Specification SpecServe: FeatureStore::get_online_features over a       *)
(* FileFeatureRegistry, from the resolution of the request to the response *)
(* or the error, for every request of the sets below.                      *)
(***************************************************************************)
\* a view whose entity column no request of the model names
CustomerView ==
    [name |-> "customer_stats",
     features |-> <<Field("spend", "Int64")>>,
     ttl |-> 0,
     entity_names |-> <<"customer">>,
     entity_columns |-> <<Field("customer_id", "Int64")>>,
     join_key_map |-> None]
ServedViews == {DriverView, GlobalView, PairView, CustomerView}
ServedViewsByName ==
    [n \in {v.name : v \in ServedViews} |-> CHOOSE v \in ServedViews : v.name = n]
ServedOnDemandViews == [n \in {"driver_odfv"} |-> [name |-> n]]
ProjectionOf(view_name) == FeatureProjection(view_name, <<>>, EmptyMap)
ServedServices ==
    {FeatureService("driver_service",
                    <<ProjectionOf("driver_hourly_stats"), ProjectionOf("trip_stats")>>,
                    ServedViewsByName),
     FeatureService("customer_service",
                    <<ProjectionOf("trip_stats"), ProjectionOf("customer_stats")>>,
                    ServedViewsByName),
     FeatureService("global_service", <<ProjectionOf("global_stats")>>, ServedViewsByName),
     FeatureService("broken_service",
                    <<ProjectionOf("driver_hourly_stats"), ProjectionOf("ghost_view")>>,
                    ServedViewsByName),
     FeatureService("odfv_service",
                    <<ProjectionOf("driver_hourly_stats"), ProjectionOf("driver_odfv")>>,
                    ServedViewsByName)}
\* the FeatureRegistry the store serves from
ServedRegistry ==
    [feature_views |-> ServedViewsByName,
     on_demand_feature_views |-> ServedOnDemandViews,
     feature_services |->
         [n \in {svc.name : svc \in ServedServices} |->
             CHOOSE svc \in ServedServices : svc.name = n]]

\* the feature strings of the requests: of a view, of no view of the
\* registry, of an on-demand view, without a view, and the empty string
FeatureStrings ==
    {<<"driver_hourly_stats", ":", "conv_rate">>, <<"trip_stats", ":", "trips">>,
     <<"customer_stats", ":", "spend">>, <<"global_stats", ":", "total">>,
     <<"ghost_view", ":", "x">>, <<"driver_odfv", ":", "score">>,
     <<"conv_rate">>, <<>>}
ServiceNames == {svc.name : svc \in ServedServices} \cup {"ghost_service"}
GetOnlineFeaturesRequest(entities, feature_service, features, full) ==
    [entities |-> entities, feature_service |-> feature_service,
     features |-> features, full_feature_names |-> full]
\* the request's vectors repeat one id: what is served depends on the names
\* and on the lengths of the vectors only
ServeEntities ==
    UNION {[names -> SeqsUpTo({IdInt(1)}, MaxVector)] : names \in SUBSET EntityNames}
\* a request names a service, lists features, does both or does neither
ServeRequests ==
    {GetOnlineFeaturesRequest(e, fs, f, full) :
        e \in ServeEntities,
        fs \in {None} \cup {Some(n) : n \in ServiceNames},
        f \in {None} \cup {Some(l) : l \in SeqsUpTo(FeatureStrings, MaxFeatures)},
        full \in {None, Some(TRUE)}}

InitServe ==
    /\ sv_request \in
           {r \in ServeRequests :
               (r.feature_service # None /\ r.features # None) =>
                   r.features = Some(<<<<"driver_hourly_stats", ":", "conv_rate">>>>)}
    /\ sv_store_calls = 0
    /\ sv_rows = <<>>
    /\ sv_result = <<"None">>
    /\ sv_pc = "start"
    /\ now = ServingTime
    /\ BuilderIdle /\ StatusIdle /\ PlannerIdle /\ CacheIdle /\ CodecIdle /\ StoreIdle /\ TailIdle

\* get_online_features lines 34-40: the registry resolves the request; the
\* map it returns is rebuilt into feature_to_view, which iterates from then
\* on in one order
Resolve ==
    /\ sv_pc = "start"
    /\ LET resolved == request_to_view_keys(ServedRegistry, sv_request)
       IN IF resolved[1] = "Err"
          THEN /\ sv_result' = resolved
               /\ sv_pc' = "done"
               /\ UNCHANGED <<pl_entities, pl_views, pl_pc>>
          ELSE /\ \E order \in Perms(DOMAIN resolved[2]) :
                     pl_views' = [i \in DOMAIN order |->
                                     [feature |-> order[i], view |-> resolved[2][order[i]]]]
               /\ pl_entities' = sv_request.entities
               /\ pl_pc' = "start"
               /\ sv_pc' = "planning"
               /\ UNCHANGED sv_result
    /\ UNCHANGED <<pl_mapping, pl_cache, pl_result, pl_i, pl_error>>
    /\ UNCHANGED <<sv_request, sv_store_calls, sv_rows>>
    /\ UNCHANGED <<builder_vars, now, status_vars, cache_vars, codec_vars, store_vars, tail_vars>>

\* line 57: the `?` on feature_views_to_keys; a panic unwinds the call
PlanFailed ==
    /\ sv_pc = "planning"
    /\ pl_pc \in {"err", "panicked"}
    /\ sv_result' = <<(IF pl_pc = "err" THEN "Err" ELSE "Panic"), pl_error[1]>>
    /\ sv_pc' = "done"
    /\ UNCHANGED <<sv_request, sv_store_calls, sv_rows>>
    /\ UNCHANGED <<builder_vars, now, status_vars, planner_vars, cache_vars, codec_vars, store_vars, tail_vars>>

\* the first occurrences of the elements of a sequence
Distinct(s) == SelectSeq([i \in DOMAIN s |-> <<i, s[i]>>],
                         LAMBDA e : \A j \in 1..(e[1] - 1) : s[j] # e[2])
\* the rows of the store for one planned feature, one per key it holds
RowsOfFeature(fwk) ==
    LET keys == Distinct(fwk.entity_keys.keys)
    IN [i \in DOMAIN keys |->
           OnlineStoreRow(fwk.feature.feature_view_name,
                          keys[i][2].join_keys, keys[i][2].entity_values,
                          fwk.feature.feature_name,
                          StoreValue(fwk.feature.feature_name, 1), 2)]
RECURSIVE RowsOfFeatures(_, _)
RowsOfFeatures(features_with_keys, r) ==
    IF r > Len(features_with_keys) THEN <<>>
    ELSE RowsOfFeature(features_with_keys[r]) \o RowsOfFeatures(features_with_keys, r + 1)

\* lines 59-70: the one call of the online store, which returns the rows it
\* holds for the planned keys or fails
CallStore ==
    /\ sv_pc = "planning"
    /\ pl_pc = "ok"
    /\ sv_store_calls' = sv_store_calls + 1
    /\ \E outcome \in {"Ok", "Err"} :
          IF outcome = "Ok"
          THEN /\ sv_rows' = RowsOfFeatures(pl_result, 1)
               /\ sv_pc' = "stored"
               /\ UNCHANGED sv_result
          ELSE /\ sv_result' = <<"Err", <<"online store error">>>>
               /\ sv_pc' = "done"
               /\ UNCHANGED sv_rows
    /\ UNCHANGED sv_request
    /\ UNCHANGED <<builder_vars, now, status_vars, planner_vars, cache_vars, codec_vars, store_vars, tail_vars>>

\* lines 72-84: the response is built from the rows; the request's entity
\* map and the feature set iterate in some order
Respond ==
    /\ sv_pc = "stored"
    /\ LET feature_set_ == {pl_result[r].feature : r \in DOMAIN pl_result}
       IN \E entities \in Perms(DOMAIN sv_request.entities), order \in Perms(feature_set_) :
             sv_result' = try_from([e \in DOMAIN entities |->
                                       Entry(entities[e], sv_request.entities[entities[e]])],
                                   sv_rows, ViewNameToView(pl_views), pl_mapping,
                                   feature_set_,
                                   IF sv_request.full_feature_names = None THEN FALSE
                                   ELSE sv_request.full_feature_names[1],
                                   now, order)
    /\ sv_pc' = "done"
    /\ UNCHANGED <<sv_request, sv_store_calls, sv_rows>>
    /\ UNCHANGED <<builder_vars, now, status_vars, planner_vars, cache_vars, codec_vars, store_vars, tail_vars>>

NextServe ==
    Resolve \/ BuildMapping \/ PlanFeature \/ PlanReturn \/ PlanFailed \/ CallStore
        \/ Respond

SpecServe == InitServe /\ [][NextServe]_vars

ServeEnded == sv_pc = "done"

(***************************************************************************)
(* C12: when the request has no vector under lookup_key(V, C) for a column *)
(* C of a resolved view V that is not entity-less, get_online_features     *)
(* returns an error that names such a key and the requested feature, the   *)
(* online store is not called and there is no response.                    *)
(***************************************************************************)
\* the entries of feature_to_view and the columns whose vector is missing
MissingKeys ==
    {<<r, c>> \in (DOMAIN pl_views) \X {1, 2} :
        /\ ~is_entity_less(pl_views[r].view)
        /\ c \in DOMAIN pl_views[r].view.entity_columns
        /\ LookupKeyOf(pl_views[r].view, pl_views[r].view.entity_columns[c])
               \notin DOMAIN pl_entities}
MissingKeyError(m) ==
    <<"Missing entity key",
      LookupKeyOf(pl_views[m[1]].view, pl_views[m[1]].view.entity_columns[m[2]]),
      pl_views[m[1]].feature.feature_name>>
C12_MissingKeyFails ==
    (ServeEnded /\ MissingKeys # {}) =>
        /\ sv_result[1] = "Err"
        /\ \E m \in MissingKeys : sv_result[2] = MissingKeyError(m)
        /\ sv_store_calls = 0

(***************************************************************************)
(* C13: a request with no feature service and an absent or empty feature   *)
(* list is rejected: its resolution returns an error, so that nothing is   *)
(* planned and no response is returned.                                    *)
(***************************************************************************)
NoFeaturesRequested ==
    /\ sv_request.feature_service = None
    /\ sv_request.features \in {None, Some(<<>>)}
ResolutionFailed == sv_pc = "done" /\ pl_pc = "idle" /\ sv_result[1] = "Err"
C13_EmptyFeatureListRejected ==
    (sv_pc \notin {"idle", "start"} /\ NoFeaturesRequested) => ResolutionFailed

(***************************************************************************)
(* C14: resolution fails whenever a referenced view is absent from the     *)
(* snapshot, with no partial map: by names with FeatureViewNotFound naming *)
(* the view (the view "" of a bare feature included), by service with      *)
(* FeatureViewNotFound for the service when a projection's view is absent  *)
(* and with FeatureServiceNotFound when the service is unknown; each error *)
(* satisfies is_not_found.                                                 *)
(***************************************************************************)
Requested == requested_features_from(sv_request)
Resolving == sv_pc \notin {"idle", "start"}
SnapshotViewNames ==
    DOMAIN ServedRegistry.feature_views \cup DOMAIN ServedRegistry.on_demand_feature_views
ByNames == Requested[1] = "FeatureNames"
\* the view each requested string names, None for a string that has no parse
ViewNamed(str) ==
    IF feature_try_from(str)[1] = "Ok"
    THEN Some(feature_try_from(str)[2].feature_view_name) ELSE None
NamesOfKind(S) ==
    {i \in DOMAIN Requested[2] :
        ViewNamed(Requested[2][i]) # None /\ ViewNamed(Requested[2][i])[1] \in S}
AbsentNames ==
    {i \in DOMAIN Requested[2] :
        ViewNamed(Requested[2][i]) # None
        /\ ViewNamed(Requested[2][i])[1] \notin SnapshotViewNames}
OnDemandNames == NamesOfKind(DOMAIN ServedRegistry.on_demand_feature_views)
ByKnownService ==
    Requested[1] = "FeatureService" /\ Requested[2] \in DOMAIN ServedRegistry.feature_services
ByUnknownService ==
    Requested[1] = "FeatureService" /\ Requested[2] \notin DOMAIN ServedRegistry.feature_services
ProjectedViews ==
    {ServedRegistry.feature_services[Requested[2]].projections[p].feature_view_name :
        p \in DOMAIN ServedRegistry.feature_services[Requested[2]].projections}
NotFoundForService ==
    /\ ResolutionFailed
    /\ is_not_found(sv_result[2])
    /\ sv_result[2][1] = "FeatureViewNotFound"
    /\ sv_result[2][3] = Some(Requested[2])
    /\ ProjectedViews \ SnapshotViewNames \subseteq Range(sv_result[2][2])
ServiceNotFound ==
    /\ ResolutionFailed
    /\ is_not_found(sv_result[2])
    /\ sv_result[2] = feature_service_not_found(Requested[2])
ByServiceNotFound ==
    /\ (Resolving /\ ByUnknownService) => ServiceNotFound
    /\ (Resolving /\ ByKnownService /\ ProjectedViews \ SnapshotViewNames # {}) =>
           NotFoundForService
C14_AbsentViewNotFound ==
    /\ (Resolving /\ ByNames /\ AbsentNames # {}) =>
           /\ ResolutionFailed
           /\ is_not_found(sv_result[2])
           /\ \E i \in AbsentNames :
                 sv_result[2] = feature_view_not_found(ViewNamed(Requested[2][i])[1])
    /\ ByServiceNotFound

\* C14 amended: by names the error is the one of the first name in the list
\* that has one, and no name is looked up when a string has no parse.  So
\* FeatureViewNotFound names the first absent view when every string parses
\* and no name before it is of an on-demand view.
FirstAbsent == CHOOSE i \in AbsentNames : \A j \in AbsentNames : i <= j
AllParse == \A i \in DOMAIN Requested[2] : ViewNamed(Requested[2][i]) # None
C14_FirstAbsentViewNotFound ==
    /\ (Resolving /\ ByNames /\ AbsentNames # {}) => ResolutionFailed
    /\ (Resolving /\ ByNames /\ AbsentNames # {} /\ AllParse
            /\ \A i \in OnDemandNames : i > FirstAbsent) =>
           /\ ResolutionFailed
           /\ is_not_found(sv_result[2])
           /\ sv_result[2] = feature_view_not_found(ViewNamed(Requested[2][FirstAbsent])[1])
    /\ ByServiceNotFound

\* a resolved view was requested before an absent one, and resolution failed
\* naming the absent one
C14_Witness ==
    /\ Resolving /\ ByNames /\ AllParse
    /\ AbsentNames = {2}
    /\ ResolutionFailed
    /\ sv_result[2] = feature_view_not_found("ghost_view")

(***************************************************************************)
(* C15: resolution fails with the on-demand (computed view) error, not a   *)
(* not-found one, when a requested feature names an on-demand view and     *)
(* when a projection of the requested service does.                        *)
(***************************************************************************)
OnDemandRejected ==
    ResolutionFailed /\ sv_result[2] = OnDemandNotSupported /\ ~is_not_found(sv_result[2])
C15_OnDemandUnsupported ==
    /\ (Resolving /\ ByNames /\ OnDemandNames # {}) => OnDemandRejected
    /\ (Resolving /\ ByKnownService
            /\ ProjectedViews \cap DOMAIN ServedRegistry.on_demand_feature_views # {}) =>
           OnDemandRejected

(***************************************************************************)
(* Specification SpecCache: a CachedFileRegistry with its refresh task and *)
(* one call of request_to_view_keys, which run on different threads: every *)
(* load and store of an ArcSwap is a step.  A snapshot is known by the     *)
(* number of its allocation; the instants and the TTL stay far from the    *)
(* ends of chrono's range.                                                 *)
(***************************************************************************)
\* the registry the n-th load returns: its views are objects of their own
SnapshotOf(n) ==
    [ServedRegistry EXCEPT
        !.feature_views = [v \in DOMAIN @ |-> [@[v] EXCEPT !.ttl = n]]]
\* the snapshots whose view objects a resolved map holds
SnapshotsIn(map) == {map[f].ttl : f \in DOMAIN map}
\* the requests name each feature once
CacheRequests ==
    {l \in SeqsUpTo({<<"driver_hourly_stats", ":", "conv_rate">>,
                     <<"trip_stats", ":", "trips">>, <<"ghost_view", ":", "x">>},
                    MaxFeatures) : Injective(l)}

\* lines 229-236: created_at + ttl < Utc::now()
is_stale_inclusive(created_at, ttl, t) == created_at + ttl <= t
is_stale(created_at, ttl, t) == created_at + ttl < t
\* a second load of inner in place of the guard taken at line 240
reloaded_registry(loaded, published) == published
\* lines 240-241: the resolution runs on the guard of the one inner.load()
guarded_registry(loaded, published) == loaded

InitCache ==
    /\ now = UNIX_EPOCH
    /\ cr_inner = 1
    /\ cr_created_at = now
    /\ cr_ttl \in 1..MaxTtl
    /\ cr_live = {1}
    /\ rf_pc = "waiting"
    /\ rf_next = now
    /\ rf_new = 0
    /\ rf_last = "none"
    /\ rd_pc = "start"
    /\ rd_request \in CacheRequests
    /\ rd_names = <<>>
    /\ rd_registry = 0
    /\ rd_i = 0
    /\ rd_result = <<"None">>
    /\ rd_warned = FALSE
    /\ cr_created_by = 1
    /\ rd_created_by = 0
    /\ BuilderIdle /\ StatusIdle /\ PlannerIdle /\ ServeIdle /\ CodecIdle /\ StoreIdle /\ TailIdle

\* a refresh task that stores created_at before inner
store_order_swapped == <<"store_created_at", "store_inner">>
\* lines 213-216: the Ok arm stores inner, then created_at
store_order == <<"store_inner", "store_created_at">>
\* the step after a store: the other store or the next turn of the loop
next_store(step) == IF store_order[1] = step THEN store_order[2] ELSE "waiting"

\* line 210: interval.tick() completes once its instant has come; the first
\* tick completes at once and the next is due a period after the last
RefreshTick ==
    /\ rf_pc = "waiting"
    /\ now >= rf_next
    /\ rf_next' = rf_next + cr_ttl
    /\ rf_pc' = "loading"
    /\ UNCHANGED <<cr_inner, cr_created_at, cr_created_by, cr_ttl, cr_live, rf_new, rf_last>>
    /\ UNCHANGED <<rd_pc, rd_request, rd_names, rd_registry, rd_i, rd_result, rd_warned, rd_created_by>>
    /\ UNCHANGED <<builder_vars, now, status_vars, planner_vars, serve_vars, codec_vars, store_vars, tail_vars>>

\* lines 211-213 and 217-219: feature_registry_fn() returns a new registry
\* or fails, and a failure is logged
RefreshLoad ==
    /\ rf_pc = "loading"
    /\ \E loaded \in BOOLEAN :
          IF loaded /\ Max(cr_live) < MaxSnapshots
          THEN /\ rf_new' = Max(cr_live \cup {rf_new}) + 1
               /\ cr_live' = cr_live \cup {rf_new'}
               /\ rf_pc' = store_order[1]
               /\ UNCHANGED rf_last
          ELSE /\ rf_last' = "err"
               /\ rf_pc' = "waiting"
               /\ UNCHANGED <<rf_new, cr_live>>
    /\ UNCHANGED <<cr_inner, cr_created_at, cr_created_by, cr_ttl, rf_next>>
    /\ UNCHANGED <<rd_pc, rd_request, rd_names, rd_registry, rd_i, rd_result, rd_warned, rd_created_by>>
    /\ UNCHANGED <<builder_vars, now, status_vars, planner_vars, serve_vars, codec_vars, store_vars, tail_vars>>

\* whether the call holds a guard on snapshot n
ReaderHolds(n) == rd_pc \in {"parse", "resolve"} /\ rd_registry = n

\* line 214: inner.store; the snapshot replaced is dropped unless a guard
\* holds it
StoreInner ==
    /\ rf_pc = "store_inner"
    /\ cr_inner' = rf_new
    /\ cr_live' = IF ReaderHolds(cr_inner) THEN cr_live ELSE cr_live \ {cr_inner}
    /\ rf_pc' = next_store("store_inner")
    /\ rf_last' = IF rf_pc' = "waiting" THEN "ok" ELSE rf_last
    /\ UNCHANGED <<cr_created_at, cr_created_by, cr_ttl, rf_next, rf_new>>
    /\ UNCHANGED <<rd_pc, rd_request, rd_names, rd_registry, rd_i, rd_result, rd_warned, rd_created_by>>
    /\ UNCHANGED <<builder_vars, now, status_vars, planner_vars, serve_vars, codec_vars, store_vars, tail_vars>>

\* line 215: created_at.store(Utc::now())
StoreCreatedAt ==
    /\ rf_pc = "store_created_at"
    /\ cr_created_at' = now
    /\ cr_created_by' = rf_new
    /\ rf_pc' = next_store("store_created_at")
    /\ rf_last' = IF rf_pc' = "waiting" THEN "ok" ELSE rf_last
    /\ UNCHANGED <<cr_inner, cr_ttl, cr_live, rf_next, rf_new>>
    /\ UNCHANGED <<rd_pc, rd_request, rd_names, rd_registry, rd_i, rd_result, rd_warned, rd_created_by>>
    /\ UNCHANGED <<builder_vars, now, status_vars, planner_vars, serve_vars, codec_vars, store_vars, tail_vars>>

\* lines 232-239: the staleness test, which only logs
CheckStale ==
    /\ rd_pc = "start"
    /\ rd_warned' = is_stale(cr_created_at, cr_ttl, now)
    /\ rd_created_by' = cr_created_by
    /\ rd_pc' = "load"
    /\ UNCHANGED <<cr_inner, cr_created_at, cr_created_by, cr_ttl, cr_live, rf_pc, rf_next, rf_new, rf_last>>
    /\ UNCHANGED <<rd_request, rd_names, rd_registry, rd_i, rd_result>>
    /\ UNCHANGED <<builder_vars, now, status_vars, planner_vars, serve_vars, codec_vars, store_vars, tail_vars>>

\* line 240: let registry = self.inner.load()
LoadInner ==
    /\ rd_pc = "load"
    /\ rd_registry' = cr_inner
    /\ rd_pc' = "parse"
    /\ UNCHANGED <<cr_inner, cr_created_at, cr_created_by, cr_ttl, cr_live, rf_pc, rf_next, rf_new, rf_last>>
    /\ UNCHANGED <<rd_request, rd_names, rd_i, rd_result, rd_warned, rd_created_by>>
    /\ UNCHANGED <<builder_vars, now, status_vars, planner_vars, serve_vars, codec_vars, store_vars, tail_vars>>

\* the guard is dropped when the call returns: a snapshot that was replaced
\* meanwhile is dropped with it
DropGuard ==
    cr_live' = IF rd_registry # cr_inner THEN cr_live \ {rd_registry} ELSE cr_live

\* file_registry.rs lines 134-151: the strings are parsed
ParseNames ==
    /\ rd_pc = "parse"
    /\ LET parsed == [i \in DOMAIN rd_request |-> feature_try_from(rd_request[i])]
           bad_requests == SelectSeq(parsed, LAMBDA r : r[1] = "Err")
       IN IF bad_requests # <<>>
          THEN /\ rd_result' = <<"Err", <<"Error while requested next features",
                                         [i \in DOMAIN bad_requests |-> bad_requests[i][2]]>>>>
               /\ rd_pc' = "done"
               /\ DropGuard
               /\ UNCHANGED rd_names
          ELSE /\ rd_names' = [i \in DOMAIN parsed |-> parsed[i][2]]
               /\ rd_result' = <<"Ok", EmptyMap>>
               /\ rd_pc' = "resolve"
               /\ UNCHANGED cr_live
    /\ UNCHANGED <<cr_inner, cr_created_at, cr_created_by, cr_ttl, rf_pc, rf_next, rf_new, rf_last>>
    /\ UNCHANGED <<rd_request, rd_registry, rd_i, rd_warned, rd_created_by>>
    /\ UNCHANGED <<builder_vars, now, status_vars, planner_vars, serve_vars, codec_vars, store_vars, tail_vars>>

\* file_registry.rs lines 103-123: one name is looked up in the registry
\* behind the guard; a snapshot already dropped would be a dangling read
ResolveName ==
    /\ rd_pc = "resolve"
    /\ rd_i < Len(rd_names)
    /\ LET registry == guarded_registry(rd_registry, cr_inner)
           stepped == names_step(SnapshotOf(registry), rd_names[rd_i + 1], rd_result[2])
       IN IF registry \notin cr_live
          THEN /\ rd_result' = <<"Dangling">>
               /\ rd_pc' = "done"
               /\ UNCHANGED cr_live
          ELSE IF stepped[1] = "Err"
          THEN /\ rd_result' = stepped
               /\ rd_pc' = "done"
               /\ DropGuard
          ELSE /\ rd_result' = stepped
               /\ rd_pc' = rd_pc
               /\ UNCHANGED cr_live
    /\ rd_i' = rd_i + 1
    /\ UNCHANGED <<cr_inner, cr_created_at, cr_created_by, cr_ttl, rf_pc, rf_next, rf_new, rf_last>>
    /\ UNCHANGED <<rd_request, rd_names, rd_registry, rd_warned, rd_created_by>>
    /\ UNCHANGED <<builder_vars, now, status_vars, planner_vars, serve_vars, codec_vars, store_vars, tail_vars>>

\* file_registry.rs line 124 and cached_registry.rs line 241: the map is
\* returned
ResolveReturn ==
    /\ rd_pc = "resolve"
    /\ rd_i = Len(rd_names)
    /\ rd_pc' = "done"
    /\ DropGuard
    /\ UNCHANGED <<cr_inner, cr_created_at, cr_created_by, cr_ttl, rf_pc, rf_next, rf_new, rf_last>>
    /\ UNCHANGED <<rd_request, rd_names, rd_registry, rd_i, rd_result, rd_warned, rd_created_by>>
    /\ UNCHANGED <<builder_vars, now, status_vars, planner_vars, serve_vars, codec_vars, store_vars, tail_vars>>

NextCache ==
    Tick \/ RefreshTick \/ RefreshLoad \/ StoreInner \/ StoreCreatedAt \/ CheckStale
        \/ LoadInner \/ ParseNames \/ ResolveName \/ ResolveReturn

SpecCache == InitCache /\ [][NextCache]_vars

(***************************************************************************)
(* C16: whatever the interleaving with the refresh task, the result of     *)
(* request_to_view_keys is the resolution of the request against the one   *)
(* snapshot the call loaded: its views are objects of that snapshot only,  *)
(* and that snapshot is not dropped before the call ends.                  *)
(***************************************************************************)
Resolved == rd_pc = "done"
ResolutionAgainst(n) == get_feature_views(SnapshotOf(n), <<"FeatureNames", rd_request>>)
C16_OneSnapshotPerResolution ==
    /\ Resolved =>
          /\ rd_result = ResolutionAgainst(rd_registry)
          /\ rd_result[1] = "Ok" => SnapshotsIn(rd_result[2]) \subseteq {rd_registry}
    /\ ReaderHolds(rd_registry) => rd_registry \in cr_live

\* two names were resolved against a snapshot that was replaced after the
\* call had loaded it
C16_Witness ==
    /\ Resolved
    /\ rd_result[1] = "Ok"
    /\ Cardinality(DOMAIN rd_result[2]) = 2
    /\ rd_registry # cr_inner

(***************************************************************************)
(* C17: a reload that fails leaves inner and created_at as they were; a    *)
(* snapshot older than the TTL makes request_to_view_keys log a warning    *)
(* and nothing else: the call still returns what the snapshot it loaded    *)
(* resolves the request to.                                                *)
(***************************************************************************)
ReloadFails == rf_pc = "loading" /\ rf_pc' = "waiting"
StalenessChecked == rd_pc = "start" /\ rd_pc' = "load"
C17_FailedReloadKeepsSnapshot ==
    /\ [][ReloadFails => UNCHANGED <<cr_inner, cr_created_at, cr_created_by>>]_vars
    /\ [][StalenessChecked => (rd_warned' = (cr_created_at + cr_ttl < now))]_vars
    /\ []((Resolved /\ rd_warned) => rd_result = ResolutionAgainst(rd_registry))

\* the last reload failed, the call found the snapshot stale and resolved
\* its two names against it
C17_Witness ==
    /\ Resolved
    /\ rd_warned
    /\ rf_last = "err" /\ rf_pc = "waiting"
    /\ rd_registry = cr_inner
    /\ rd_result[1] = "Ok"
    /\ Cardinality(DOMAIN rd_result[2]) = 2

(***************************************************************************)
(* key_serialization.rs: the entity-key codec.  A byte is a number of      *)
(* 0..255, a byte string a sequence of bytes, and a Rust string the        *)
(* sequence of its UTF-8 bytes.                                            *)
(***************************************************************************)
\* value_type::Enum as u32
EnumBytes == 1
EnumString == 2
EnumInt32 == 3
EnumInt64 == 4
EnumBytesList == 11
EnumValues == {EnumBytes, EnumString, EnumInt32, EnumInt64, EnumBytesList}
BytesVal(b) == <<"BytesVal", b>>

\* to_be_bytes: the most significant byte first
RECURSIVE to_be_bytes(_, _)
to_be_bytes(v, width) ==
    IF width = 0 THEN <<>> ELSE to_be_bytes(v \div 256, width - 1) \o <<v % 256>>
\* to_le_bytes of an integer of `width` bytes, in two's complement
RECURSIVE to_le_bytes(_, _)
to_le_bytes(v, width) ==
    IF width = 0 THEN <<>> ELSE <<v % 256>> \o to_le_bytes(v \div 256, width - 1)
\* u32::from_le_bytes
RECURSIVE le_sum(_)
le_sum(b) == IF b = <<>> THEN 0 ELSE b[1] + 256 * le_sum(Tail(b))
\* u32::from_le_bytes; a number of U32Far or more stands for itself or any
\* larger one: each is past the end of every buffer and equal to no tag or size
U32Far == 1073741824
u32_from_le_bytes(b) == IF Len(b) = 4 /\ b[4] >= 64 THEN U32Far ELSE le_sum(b)
\* i32::from_le_bytes and i64::from_le_bytes: the last byte holds the sign
RECURSIVE int_from_le_bytes(_)
int_from_le_bytes(b) ==
    IF Len(b) = 1 THEN (IF b[1] >= 128 THEN b[1] - 256 ELSE b[1])
    ELSE b[1] + 256 * int_from_le_bytes(Tail(b))
\* i64::from_le_bytes; a number that does not fit 32 bits is kept as its bytes
i64_from_le_bytes(b) ==
    IF \A i \in 5..8 : b[i] = (IF b[4] >= 128 THEN 255 ELSE 0)
    THEN int_from_le_bytes(SubSeq(b, 1, 4)) ELSE <<"i64", b>>
\* bytes[from..to] with Rust indexes; the slice of a range out of bounds
\* panics
InBounds(bytes, from, to) == from <= to /\ to <= Len(bytes)
Slice(bytes, from, to) == SubSeq(bytes, from + 1, to)

serialize_value(value) ==
    IF value = NoVal THEN <<"Err", "Missing value">>
    ELSE CASE value[1] = "Int32Val" ->
                <<"Ok", to_le_bytes(EnumInt32, 4) \o to_le_bytes(4, 4)
                        \o to_le_bytes(value[2], 4)>>
           [] value[1] = "Int64Val" ->
                <<"Ok", to_le_bytes(EnumInt64, 4) \o to_le_bytes(8, 4)
                        \o to_le_bytes(value[2], 8)>>
           [] value[1] = "StringVal" ->
                <<"Ok", to_le_bytes(EnumString, 4) \o to_le_bytes(Len(value[2]), 4)
                        \o value[2]>>
           [] value[1] = "BytesVal" ->
                <<"Ok", to_le_bytes(EnumBytes, 4) \o to_le_bytes(Len(value[2]), 4)
                        \o value[2]>>
           [] OTHER -> <<"Err", "Unsupported type">>

\* String::from_utf8 accepts the bytes; of the bytes the keys here are made
\* of, those of 128 and more stand in no well-formed sequence
is_utf8(bytes) == \A i \in DOMAIN bytes : bytes[i] < 128
OutOfRange == <<"Panic", "range end index out of range">>

\* <<"Ok", val, idx>>, <<"Err", e>>, or <<"Panic", e>> for a slice out of bounds
deserialize_val(bytes, idx) ==
    IF ~InBounds(bytes, idx, idx + 4) THEN OutOfRange
    ELSE LET value_type_int == int_from_le_bytes(Slice(bytes, idx, idx + 4))
             size == u32_from_le_bytes(Slice(bytes, idx + 4, idx + 8))
         IN IF value_type_int \notin EnumValues
            THEN <<"Err", "Failed to convert i32 value to value type">>
            ELSE CASE value_type_int = EnumInt32 ->
                        IF ~InBounds(bytes, idx + 4, idx + 8) THEN OutOfRange
                        ELSE IF size # 4 THEN <<"Err", "Incorrect size of serialized int 32">>
                        ELSE IF ~InBounds(bytes, idx + 8, idx + 12) THEN OutOfRange
                        ELSE <<"Ok", Int32Val(int_from_le_bytes(Slice(bytes, idx + 8, idx + 12))),
                               idx + 12>>
                   [] value_type_int = EnumInt64 ->
                        IF ~InBounds(bytes, idx + 4, idx + 8) THEN OutOfRange
                        ELSE IF size # 8 THEN <<"Err", "Incorrect size of serialized int 64">>
                        ELSE IF ~InBounds(bytes, idx + 8, idx + 16) THEN OutOfRange
                        ELSE <<"Ok", Int64Val(i64_from_le_bytes(Slice(bytes, idx + 8, idx + 16))),
                               idx + 16>>
                   [] value_type_int = EnumString ->
                        IF ~InBounds(bytes, idx + 4, idx + 8) THEN OutOfRange
                        ELSE IF ~InBounds(bytes, idx + 8, idx + 8 + size) THEN OutOfRange
                        ELSE IF ~is_utf8(Slice(bytes, idx + 8, idx + 8 + size))
                        THEN <<"Err", "invalid utf-8 sequence">>
                        ELSE <<"Ok", StringVal(Slice(bytes, idx + 8, idx + 8 + size)),
                               idx + 8 + size>>
                   [] value_type_int = EnumBytesList ->
                        IF ~InBounds(bytes, idx + 4, idx + 8) THEN OutOfRange
                        ELSE IF ~InBounds(bytes, idx + 8, idx + 8 + size) THEN OutOfRange
                        ELSE <<"Ok", BytesVal(Slice(bytes, idx + 8, idx + 8 + size)),
                               idx + 8 + size>>
                   [] OTHER -> <<"Err", "Unsupported serialized type">>

\* the order of str: byte by byte, a prefix first
StrLess(a, b) ==
    \E i \in 1..(Len(b)) :
        /\ \A j \in 1..(i - 1) : j <= Len(a) /\ a[j] = b[j]
        /\ (i > Len(a) \/ (i <= Len(a) /\ a[i] < b[i]))
\* Vec::sort of the keys of key_map
sorted(S) ==
    CHOOSE l \in [1..Cardinality(S) -> S] :
        \A i, j \in DOMAIN l : i < j => StrLess(l[i], l[j])
\* lines 101-106: the HashMap collected from the zip of names and values, in
\* which a later pair replaces an earlier one of the same name
key_map_of(entity_key) ==
    LET n == IF Len(entity_key.join_keys) <= Len(entity_key.entity_values)
             THEN Len(entity_key.join_keys) ELSE Len(entity_key.entity_values)
    IN [name \in {entity_key.join_keys[i] : i \in 1..n} |->
           entity_key.entity_values[
               CHOOSE i \in 1..n : /\ entity_key.join_keys[i] = name
                                   /\ \A j \in 1..n : entity_key.join_keys[j] = name => j <= i]]
RECURSIVE serialize_names(_, _)
serialize_names(sorted_keys, k) ==
    IF k > Len(sorted_keys) THEN <<>>
    ELSE to_le_bytes(EnumString, 4) \o to_le_bytes(Len(sorted_keys[k]), 4) \o sorted_keys[k]
         \o serialize_names(sorted_keys, k + 1)
RECURSIVE serialize_values(_, _, _, _)
serialize_values(sorted_keys, key_map, k, bytes) ==
    IF k > Len(sorted_keys) THEN <<"Ok", bytes>>
    ELSE LET value_bytes == serialize_value(key_map[sorted_keys[k]])
         IN IF value_bytes[1] = "Err" THEN value_bytes
            ELSE serialize_values(sorted_keys, key_map, k + 1, bytes \o value_bytes[2])
serialize_key(entity_key, serializer_version) ==
    IF serializer_version # "V3" THEN <<"Err", "Unsupported version of key serializer">>
    ELSE LET key_map == key_map_of(entity_key)
             sorted_keys == sorted(DOMAIN key_map)
         IN serialize_values(sorted_keys, key_map, 1,
                             to_le_bytes(Len(sorted_keys), 4)
                                 \o serialize_names(sorted_keys, 1))

\* lines 131-149: the names from name i on; <<"Ok", join_keys, idx>> at the end
RECURSIVE deserialize_names(_, _, _, _, _)
deserialize_names(bytes, key_len, i, idx, join_keys) ==
    IF i >= key_len THEN <<"Ok", join_keys, idx>>
    ELSE IF ~InBounds(bytes, idx, idx + 4)
    THEN <<"Panic", "range end index out of range">>
    ELSE IF u32_from_le_bytes(Slice(bytes, idx, idx + 4)) # EnumString
    THEN <<"Err", "Incorrect format of key: incorrect key type">>
    ELSE IF ~InBounds(bytes, idx + 4, idx + 8)
    THEN <<"Panic", "range end index out of range">>
    ELSE LET name_len == u32_from_le_bytes(Slice(bytes, idx + 4, idx + 8))
         IN IF ~InBounds(bytes, idx + 8, idx + 8 + name_len)
            THEN <<"Panic", "range end index out of range">>
            ELSE IF ~is_utf8(Slice(bytes, idx + 8, idx + 8 + name_len))
            THEN <<"Err", "Cannot deserialize key name">>
            ELSE deserialize_names(bytes, key_len, i + 1, idx + 8 + name_len,
                     Append(join_keys, Slice(bytes, idx + 8, idx + 8 + name_len)))
\* lines 150-154
RECURSIVE deserialize_values(_, _, _, _, _)
deserialize_values(bytes, key_len, i, idx, entity_values) ==
    IF i >= key_len THEN <<"Ok", entity_values>>
    ELSE LET val == deserialize_val(bytes, idx)
         IN IF val[1] # "Ok" THEN val
            ELSE deserialize_values(bytes, key_len, i + 1, val[3], Append(entity_values, val[2]))
deserialize_key(bytes, serializer_version) ==
    IF serializer_version # "V3" THEN <<"Err", "Unsupported version of key serializer">>
    ELSE IF ~InBounds(bytes, 0, 4) THEN <<"Panic", "range end index out of range">>
    ELSE LET key_len == u32_from_le_bytes(Slice(bytes, 0, 4))
             names == deserialize_names(bytes, key_len, 0, 4, <<>>)
         IN IF names[1] # "Ok" THEN names
            ELSE LET values == deserialize_values(bytes, key_len, 0, names[3], <<>>)
                 IN IF values[1] # "Ok" THEN values
                    ELSE <<"Ok", EntityKey(names[2], values[2])>>

(***************************************************************************)
(* Specification SpecCodec: serialize_key of an entity key, then           *)
(* deserialize_key of the bytes it returned.                               *)
(***************************************************************************)
\* the join-key names "a", "ab" and "b"
CodecNames == {<<97>>, <<97, 98>>, <<98>>}
\* values of the four supported types, a value of another type and the
\* value not set
CodecValues ==
    {Int32Val(1), Int32Val(-2), Int64Val(300), Int64Val(-1),
     StringVal(<<>>), StringVal(<<97>>), BytesVal(<<>>), BytesVal(<<0, 255>>),
     DoubleVal(1), NoVal}
\* the keys of at least one column whose names differ
CodecKeys ==
    {EntityKey(names, values) :
        names \in {l \in SeqsUpTo(CodecNames, MaxColumns) : l # <<>> /\ Injective(l)},
        values \in SeqsUpTo(CodecValues, MaxColumns)} 

InitCodec ==
    /\ kc_key \in {k \in CodecKeys : Len(k.join_keys) = Len(k.entity_values)}
    /\ kc_version \in {"V2", "V3"}
    /\ kc_bytes = <<"None">>
    /\ kc_decoded = <<"None">>
    /\ kc_pc = "serialize"
    /\ now = UNIX_EPOCH
    /\ BuilderIdle /\ StatusIdle /\ PlannerIdle /\ ServeIdle /\ CacheIdle /\ StoreIdle /\ TailIdle

\* key_serialization.rs lines 95-122
Serialize ==
    /\ kc_pc = "serialize"
    /\ kc_bytes' = serialize_key(kc_key, kc_version)
    /\ kc_pc' = IF kc_bytes'[1] = "Ok" THEN "deserialize" ELSE "done"
    /\ UNCHANGED <<kc_key, kc_version, kc_decoded>>
    /\ UNCHANGED <<builder_vars, now, status_vars, planner_vars, serve_vars, cache_vars, store_vars, tail_vars>>

\* key_serialization.rs lines 124-159
Deserialize ==
    /\ kc_pc = "deserialize"
    /\ kc_decoded' = deserialize_key(kc_bytes[2], kc_version)
    /\ kc_pc' = "done"
    /\ UNCHANGED <<kc_key, kc_version, kc_bytes>>
    /\ UNCHANGED <<builder_vars, now, status_vars, planner_vars, serve_vars, cache_vars, store_vars, tail_vars>>

NextCodec == Serialize \/ Deserialize

SpecCodec == InitCodec /\ [][NextCodec]_vars

(***************************************************************************)
(* C20: for an entity key of distinct names, as many values as names, at   *)
(* least one, and values of type int32, int64, string or bytes,            *)
(* deserialize_key of serialize_key of the key, both of version V3,        *)
(* succeeds with a key of the same (name, value) pairs.                    *)
(***************************************************************************)
SupportedValue(v) == v # NoVal /\ v[1] \in {"Int32Val", "Int64Val", "StringVal", "BytesVal"}
PairsOf(k) == {<<k.join_keys[i], k.entity_values[i]>> : i \in DOMAIN k.join_keys}
RoundTripDone == kc_pc = "done"
C20_KeyRoundTrip ==
    (RoundTripDone /\ kc_version = "V3"
        /\ \A i \in DOMAIN kc_key.entity_values : SupportedValue(kc_key.entity_values[i])) =>
        /\ kc_bytes[1] = "Ok"
        /\ kc_decoded[1] = "Ok"
        /\ Len(kc_decoded[2].join_keys) = Len(kc_key.join_keys)
        /\ Len(kc_decoded[2].entity_values) = Len(kc_key.join_keys)
        /\ PairsOf(kc_decoded[2]) = PairsOf(kc_key)

(***************************************************************************)
(* onlinestore: what a backend holds, and the bytes of its keys.  The keys *)
(* of the planner carry Rust strings; the codec works on their bytes.      *)
(***************************************************************************)
\* str::as_bytes of the strings the entity keys of the stores are made of
as_bytes(str) ==
    CASE str = "driver_id" -> <<100, 114, 105, 118, 101, 114, 95, 105, 100>>
      [] str = "customer_id" -> <<99, 117, 115, 116, 111, 109, 101, 114, 95, 105, 100>>
      [] str = DUMMY_ENTITY_ID -> <<95, 95, 100, 117, 109, 109, 121, 95, 105, 100>>
      [] str = DUMMY_ENTITY_VAL -> <<>>
KeyStrings == {"driver_id", "customer_id", DUMMY_ENTITY_ID, DUMMY_ENTITY_VAL}
\* String::from_utf8 of the bytes of one of these strings
from_utf8(bytes) == CHOOSE str \in KeyStrings : as_bytes(str) = bytes
\* an EntityKey with its strings as bytes, and back
BytesOfKey(entity_key) ==
    EntityKey([i \in DOMAIN entity_key.join_keys |-> as_bytes(entity_key.join_keys[i])],
              [i \in DOMAIN entity_key.entity_values |->
                  IF entity_key.entity_values[i][1] = "StringVal"
                  THEN StringVal(as_bytes(entity_key.entity_values[i][2]))
                  ELSE entity_key.entity_values[i]])
KeyOfBytes(entity_key) ==
    EntityKey([i \in DOMAIN entity_key.join_keys |-> from_utf8(entity_key.join_keys[i])],
              [i \in DOMAIN entity_key.entity_values |->
                  IF entity_key.entity_values[i][1] = "StringVal"
                  THEN StringVal(from_utf8(entity_key.entity_values[i][2]))
                  ELSE entity_key.entity_values[i]])

\* the bytes of a protobuf message: those prost decodes to a message, and
\* those it rejects
Encoded(message) == <<"Encoded", message>>
Garbage == <<"Garbage">>
\* Value::decode and Timestamp::decode
decode(bytes) == IF bytes[1] = "Encoded" THEN <<"Ok", bytes[2]>> ELSE <<"Err", "DecodeError">>

\* the project of the store, "p"
StoreProject == <<112>>
\* the views of the backend and the one entity key it may hold for each
StoreViews == {DriverView, CustomerView}
StoreViewNames == {v.name : v \in StoreViews}
StoredKey(view_name) ==
    LET view == CHOOSE v \in StoreViews : v.name = view_name
    IN EntityKey(<<view.entity_columns[1].name>>, <<Int64Val(1)>>)
\* the instant the backend's values were written at
StoredTs == 2
StoreCells ==
    {Feature(DriverView.name, "conv_rate"), Feature(DriverView.name, "acc_rate"),
     Feature(CustomerView.name, "spend")}
\* a cell is absent, or holds the bytes of a value, of the value not set, or
\* bytes that are no value
Absent == <<"Absent">>
CellStatesOf(cell) ==
    CASE cell.feature_name = "conv_rate" ->
            {Absent, Encoded(DoubleVal(1)), Encoded(NoVal), Garbage}
      [] cell.feature_name = "acc_rate" -> {Absent, Encoded(DoubleVal(2))}
      [] OTHER -> {Absent, Encoded(Int64Val(7))}
PresentCells(cells, view_name) ==
    {c \in DOMAIN cells : c.feature_view_name = view_name /\ cells[c] # Absent}

(***************************************************************************)
(* feature_store_impl.rs lines 59-68: the map handed to the online store.  *)
(***************************************************************************)
RECURSIVE push_feature(_, _, _, _)
push_feature(features, feature, key_list, k) ==
    IF k > Len(key_list) THEN features
    ELSE push_feature(
            MapInsert(features, key_list[k],
                      Append(IF key_list[k] \in DOMAIN features
                             THEN features[key_list[k]] ELSE <<>>, feature)),
            feature, key_list, k + 1)
RECURSIVE features_of(_, _, _)
features_of(features_with_keys, r, features) ==
    IF r > Len(features_with_keys) THEN features
    ELSE features_of(features_with_keys, r + 1,
                     push_feature(features, features_with_keys[r].feature,
                                  features_with_keys[r].entity_keys.keys, 1))

(***************************************************************************)
(* sqlite_onlinestore.rs: get_feature_values.                              *)
(***************************************************************************)
SqliteStoreRow(entity_key, feature_name, value, event_ts) ==
    [entity_key |-> entity_key, feature_name |-> feature_name, value |-> value,
     event_ts |-> event_ts]
\* the rows of the table {project}_{view}
TableRows(cells, view_name) ==
    {SqliteStoreRow(serialize_key(BytesOfKey(StoredKey(view_name)), "V3")[2],
                    c.feature_name, cells[c], StoredTs) :
        c \in PresentCells(cells, view_name)}
\* SELECT ... where entity_key in (...) AND feature_name in (...)
Selected(table_rows, serialized_keys, feature_names) ==
    {r \in table_rows : r.entity_key \in serialized_keys /\ r.feature_name \in feature_names}

\* lines 47-77
try_into_online_store_row(row, feature_view_name) ==
    LET decoded_value == decode(row.value)
    IN IF decoded_value[1] = "Err"
       THEN <<"Err", <<"Failed to decode value for feature", feature_view_name,
                       row.feature_name>>>>
       ELSE LET entity_key == deserialize_key(row.entity_key, "V3")
            IN IF entity_key[1] = "Panic" THEN entity_key
               ELSE IF entity_key[1] = "Err"
               THEN <<"Err", <<"Failed to deserialize entity key for feature view",
                               feature_view_name>>>>
               ELSE LET key == KeyOfBytes(entity_key[2])
                    IN <<"Ok", OnlineStoreRow(feature_view_name, key.join_keys,
                                              key.entity_values, row.feature_name,
                                              decoded_value[2], row.event_ts)>>

\* lines 154-157: the rows collected into a Result, up to the first that fails
RECURSIVE collect_rows(_, _, _, _)
collect_rows(fetched, i, feature_view_name, acc) ==
    IF i > Len(fetched) THEN <<"Ok", acc>>
    ELSE LET row == try_into_online_store_row(fetched[i], feature_view_name)
         IN IF row[1] # "Ok" THEN row
            ELSE collect_rows(fetched, i + 1, feature_view_name, Append(acc, row[2]))

\* lines 153-164 with every answer of fetch_all but a table not there taken
\* for rows
fetch_all_lenient(outcome, fetched, feature_view_name) ==
    IF outcome = "ok" THEN collect_rows(fetched, 1, feature_view_name, <<>>)
    ELSE <<"Ok", <<>>>>
\* lines 153-164: the match on what fetch_all answered, which is rows, the
\* database's "no such table", or another error
fetch_all(outcome, fetched, feature_view_name) ==
    CASE outcome = "ok" -> collect_rows(fetched, 1, feature_view_name, <<>>)
      [] outcome = "no such table" -> <<"Ok", <<>>>>
      [] OTHER -> <<"Err", "sqlx::Error">>

\* lines 108-125: Ok with view_to_keys and view_features, or the error of
\* serialize_key
group_by_view(features) ==
    LET serialized == [k \in DOMAIN features |-> serialize_key(BytesOfKey(k), "V3")]
        of_view(k, view_name) ==
            {features[k][i].feature_name :
                i \in {i \in DOMAIN features[k] :
                          features[k][i].feature_view_name = view_name}}
        views == UNION {{features[k][i].feature_view_name : i \in DOMAIN features[k]} :
                           k \in DOMAIN features}
    IN IF \E k \in DOMAIN features : serialized[k][1] = "Err"
       THEN <<"Err", "Unsupported type">>
       ELSE <<"Ok",
              [view_name \in views |->
                  {serialized[k][2] :
                      k \in {k \in DOMAIN features : of_view(k, view_name) # {}}}],
              [view_name \in views |->
                  UNION {of_view(k, view_name) : k \in DOMAIN features}]>>

\* lines 175-187: the errors and the rows of feature_rows
errors_of(feature_rows) == SelectSeq(feature_rows, LAMBDA r : r[1] = "Err")
RECURSIVE clean_data_of(_, _)
clean_data_of(feature_rows, i) ==
    IF i > Len(feature_rows) THEN <<>>
    ELSE (IF feature_rows[i][1] = "Ok" THEN feature_rows[i][2] ELSE <<>>)
         \o clean_data_of(feature_rows, i + 1)

(***************************************************************************)
(* redis.rs: get_feature_values.                                           *)
(***************************************************************************)
\* lines 22-28: the four bytes of the MurmurHash3 of "{view}:{feature}",
\* kept as the text hashed
feature_redis_key(feature) ==
    <<"murmur3_32", feature.feature_view_name, ":", feature.feature_name>>
ts_key(feature_view_name) == <<"_ts:", feature_view_name>>
\* the hashes of the backend: one per entity key that has a value, under
\* serialize_key(key) followed by the project, with a field per feature and
\* a field per view for the timestamp
RedisHashes(cells) ==
    LET views == {v \in StoreViewNames : PresentCells(cells, v) # {}}
        fields(v) == {feature_redis_key(c) : c \in PresentCells(cells, v)} \cup {ts_key(v)}
    IN [hset_entity_key \in
            {serialize_key(BytesOfKey(StoredKey(v)), "V3")[2] \o StoreProject : v \in views} |->
          LET v == CHOOSE v \in views :
                      hset_entity_key
                          = serialize_key(BytesOfKey(StoredKey(v)), "V3")[2] \o StoreProject
          IN [field \in fields(v) |->
                 IF field = ts_key(v) THEN Encoded(StoredTs)
                 ELSE cells[CHOOSE c \in PresentCells(cells, v) :
                                feature_redis_key(c) = field]]]
\* HMGET: a value or nil for each field asked, nil for all of a key not there
hmget(hashes, hset_entity_key, feature_keys) ==
    [i \in DOMAIN feature_keys |->
        IF hset_entity_key \in DOMAIN hashes
              /\ feature_keys[i] \in DOMAIN hashes[hset_entity_key]
        THEN Some(hashes[hset_entity_key][feature_keys[i]]) ELSE None]

TimestampRow(entity_key, feature_view_name) ==
    [kind |-> "TimestampRow", entity_key |-> entity_key,
     feature_view_name |-> feature_view_name]
FeatureRow(feature_view_name, entity_key, feature_name) ==
    [kind |-> "FeatureRow", entity_key |-> entity_key,
     feature_view_name |-> feature_view_name, feature_name |-> feature_name]

\* lines 378-405: the requests and the fields of one key
RECURSIVE requests_of_key(_, _, _, _, _, _)
requests_of_key(key, feature_vec, i, seen_views, feature_keys, entities) ==
    IF i > Len(feature_vec) THEN <<feature_keys, entities>>
    ELSE LET feature == feature_vec[i]
             first == feature.feature_view_name \notin seen_views
         IN requests_of_key(
                key, feature_vec, i + 1, seen_views \cup {feature.feature_view_name},
                (IF first THEN Append(feature_keys, ts_key(feature.feature_view_name))
                 ELSE feature_keys) \o <<feature_redis_key(feature)>>,
                (IF first
                 THEN Append(entities, TimestampRow(key, feature.feature_view_name))
                 ELSE entities)
                    \o <<FeatureRow(feature.feature_view_name, key, feature.feature_name)>>)

\* lines 377-408: the pipeline and the requests, or the error of
\* serialize_key; keys is features in the order it iterates
RECURSIVE build_pipeline(_, _, _, _, _)
build_pipeline(features, keys, k, pipeline, entities) ==
    IF k > Len(keys) THEN <<"Ok", pipeline, entities>>
    ELSE LET hset_entity_key == serialize_key(BytesOfKey(keys[k]), "V3")
         IN IF hset_entity_key[1] = "Err" THEN hset_entity_key
            ELSE LET reqs == requests_of_key(keys[k], features[keys[k]], 1, {}, <<>>, <<>>)
                 IN build_pipeline(
                        features, keys, k + 1,
                        Append(pipeline, <<hset_entity_key[2] \o StoreProject, reqs[1]>>),
                        entities \o reqs[2])

RECURSIVE flatten(_, _)
flatten(results, i) ==
    IF i > Len(results) THEN <<>> ELSE results[i] \o flatten(results, i + 1)

\* lines 421-477: the loop over the requests zipped with the values
RECURSIVE result_rows_of(_, _, _, _, _)
result_rows_of(entities, values, i, timestamp_map, result_rows) ==
    IF i > Len(entities) \/ i > Len(values) THEN <<"Ok", result_rows>>
    ELSE LET request == entities[i]
             value == values[i]
             at == <<request.feature_view_name, request.entity_key>>
         IN IF request.kind = "FeatureRow"
            THEN LET ts == IF at \in DOMAIN timestamp_map /\ timestamp_map[at] # None
                           THEN timestamp_map[at][1] ELSE UNIX_EPOCH
                     decoded_value == IF value # None THEN decode(value[1])
                                      ELSE <<"Ok", NoVal>>
                 IN IF decoded_value[1] = "Err"
                    THEN <<"Err", <<"Failed to decode value for feature",
                                    request.feature_view_name, request.feature_name>>>>
                    ELSE result_rows_of(
                            entities, values, i + 1, timestamp_map,
                            Append(result_rows,
                                   OnlineStoreRow(request.feature_view_name,
                                                  request.entity_key.join_keys,
                                                  request.entity_key.entity_values,
                                                  request.feature_name,
                                                  decoded_value[2], ts)))
            ELSE LET ts == IF value # None THEN decode(value[1]) ELSE <<"Ok", None>>
                 IN IF ts[1] = "Err"
                    THEN <<"Err", <<"Failed to decode timestamp for feature view",
                                    request.feature_view_name>>>>
                    ELSE result_rows_of(
                            entities, values, i + 1,
                            MapInsert(timestamp_map, at,
                                      IF value # None THEN Some(ts[2]) ELSE None),
                            result_rows)

\* lines 369-480; connected says whether query_async got its answer
redis_get_feature_values(features, keys, hashes, connected) ==
    LET built == build_pipeline(features, keys, 1, <<>>, <<>>)
    IN IF built[1] = "Err" THEN built
       ELSE IF ~connected THEN <<"Err", "RedisError">>
       ELSE LET results == [c \in DOMAIN built[2] |->
                               hmget(hashes, built[2][c][1], built[2][c][2])]
                values == flatten(results, 1)
            IN IF Len(values) # Len(built[3])
               THEN <<"Err", "Mismatched number of results">>
               ELSE result_rows_of(built[3], values, 1, EmptyMap, <<>>)

(***************************************************************************)
(* Specification SpecStore: get_online_features served from the sqlite     *)
(* store or from the redis store.  The backend holds what st_cells says    *)
(* for the key of id 1 of each view; the tasks of the sqlite store run     *)
(* while the loop that spawns them goes on.                                *)
(***************************************************************************)
StoreFeatureStrings ==
    {<<c.feature_view_name, ":", c.feature_name>> : c \in StoreCells}
StoreEntities ==
    {[n \in {"driver_id", "customer_id"} |-> ids] :
        ids \in SeqsUpTo({IdInt(1)}, MaxVector) \ {<<>>}}
StoreRequests ==
    {GetOnlineFeaturesRequest(e, None, Some(l), None) :
        e \in StoreEntities,
        l \in {l \in SeqsUpTo(StoreFeatureStrings, MaxFeatures) : l # <<>> /\ Injective(l)}}
\* how the query of a table ends: with rows, with the database's "no such
\* table", with another error, or with a panic of the task
TableOutcomesOf(view_name) ==
    IF view_name = DriverView.name THEN {"ok", "no such table", "error", "panic"}
    ELSE {"ok", "no such table", "error"}

InitStore ==
    /\ sv_request \in StoreRequests
    /\ sv_store_calls = 0
    /\ sv_rows = <<>>
    /\ sv_result = <<"None">>
    /\ sv_pc = "start"
    /\ st_kind \in {"sqlite", "redis"}
    /\ st_cells \in {cells \in [StoreCells -> UNION {CellStatesOf(c) : c \in StoreCells}] :
                        \A c \in StoreCells : cells[c] \in CellStatesOf(c)}
    /\ st_tables \in {tables \in [StoreViewNames -> TableOutcomesOf(DriverView.name)] :
                         \A v \in StoreViewNames : tables[v] \in TableOutcomesOf(v)}
    /\ st_kind = "redis" => \A v \in StoreViewNames : st_tables[v] = "ok"
    /\ st_features = <<>>
    /\ st_view_to_keys = <<>>
    /\ st_view_features = <<>>
    /\ st_tasks = <<>>
    /\ st_feature_rows = <<>>
    /\ st_result = <<"None">>
    /\ st_pc = "ready"
    /\ now = ServingTime
    /\ BuilderIdle /\ StatusIdle /\ PlannerIdle /\ CacheIdle /\ CodecIdle /\ TailIdle

\* feature_store_impl.rs lines 59-70: the features map is built and the
\* online store is called
StoreCall ==
    /\ sv_pc = "planning"
    /\ pl_pc = "ok"
    /\ st_pc = "ready"
    /\ st_features' = features_of(pl_result, 1, EmptyMap)
    /\ sv_store_calls' = sv_store_calls + 1
    /\ sv_pc' = "storing"
    /\ st_pc' = st_kind
    /\ UNCHANGED <<sv_request, sv_rows, sv_result>>
    /\ UNCHANGED <<st_kind, st_cells, st_tables, st_view_to_keys, st_view_features,
                   st_tasks, st_feature_rows, st_result>>
    /\ UNCHANGED <<builder_vars, now, status_vars, planner_vars, cache_vars, codec_vars, tail_vars>>

\* get_feature_values returns and line 70 passes its rows on or, with `?`,
\* its error; the JoinSet dropped aborts the tasks it still holds
StoreReturns(result) ==
    /\ st_result' = result
    /\ st_pc' = "returned"
    /\ st_tasks' = EmptyMap
    /\ IF result[1] = "Ok"
       THEN /\ sv_rows' = result[2]
            /\ sv_pc' = "stored"
            /\ UNCHANGED sv_result
       ELSE /\ sv_result' = result
            /\ sv_pc' = "done"
            /\ UNCHANGED sv_rows
    /\ UNCHANGED <<sv_request, sv_store_calls>>
    /\ UNCHANGED <<st_kind, st_cells, st_tables, st_features>>
    /\ UNCHANGED <<builder_vars, now, status_vars, planner_vars, cache_vars, codec_vars, tail_vars>>

\* sqlite_onlinestore.rs lines 108-127
SqliteGroup ==
    /\ st_pc = "sqlite"
    /\ LET grouped == group_by_view(st_features)
       IN IF grouped[1] = "Err"
          THEN /\ StoreReturns(grouped)
               /\ UNCHANGED <<st_view_to_keys, st_view_features, st_feature_rows>>
          ELSE /\ st_view_to_keys' = grouped[2]
               /\ st_view_features' = grouped[3]
               /\ st_pc' = "spawn"
               /\ UNCHANGED <<st_kind, st_cells, st_tables, st_features, st_tasks,
                              st_feature_rows, st_result, serve_vars>>
               /\ UNCHANGED <<builder_vars, now, status_vars, planner_vars, cache_vars,
                              codec_vars, tail_vars>>

\* lines 128-137: one iteration of the loop over view_to_keys, up to the
\* spawn of the view's task; the pool may give no connection
SqliteSpawn ==
    /\ st_pc = "spawn"
    /\ \E view_name \in DOMAIN st_view_to_keys :
          LET serialized_keys == st_view_to_keys[view_name]
              features == IF view_name \in DOMAIN st_view_features
                          THEN st_view_features[view_name] ELSE {}
          IN IF serialized_keys = {} \/ features = {}
             THEN /\ st_view_to_keys' = MapWithout(st_view_to_keys, view_name)
                  /\ st_view_features' = MapWithout(st_view_features, view_name)
                  /\ UNCHANGED <<st_kind, st_cells, st_tables, st_features, st_tasks,
                                 st_feature_rows, st_result, st_pc, serve_vars>>
                  /\ UNCHANGED <<builder_vars, now, status_vars, planner_vars, cache_vars,
                                 codec_vars, tail_vars>>
             ELSE \E acquired \in BOOLEAN :
                     IF acquired
                     THEN /\ st_tasks' = MapInsert(st_tasks, view_name,
                                                   <<"Running", serialized_keys, features>>)
                          /\ st_view_to_keys' = MapWithout(st_view_to_keys, view_name)
                          /\ st_view_features' = MapWithout(st_view_features, view_name)
                          /\ UNCHANGED <<st_kind, st_cells, st_tables, st_features,
                                         st_feature_rows, st_result, st_pc, serve_vars>>
                          /\ UNCHANGED <<builder_vars, now, status_vars, planner_vars,
                                         cache_vars, codec_vars, tail_vars>>
                     ELSE /\ StoreReturns(<<"Err", "PoolTimedOut">>)
                          /\ UNCHANGED <<st_view_to_keys, st_view_features, st_feature_rows>>

\* lines 137-165: the task of one view runs its query; the database answers
\* with the rows selected in some order
SqliteTask ==
    /\ st_pc = "spawn"
    /\ \E view_name \in DOMAIN st_tasks :
          /\ st_tasks[view_name][1] = "Running"
          /\ IF st_tables[view_name] = "panic"
             THEN st_tasks' = [st_tasks EXCEPT ![view_name] = <<"Panic", "task panicked">>]
             ELSE \E fetched \in Perms(Selected(TableRows(st_cells, view_name),
                                                st_tasks[view_name][2],
                                                st_tasks[view_name][3])) :
                     st_tasks' = [st_tasks EXCEPT
                                     ![view_name] = fetch_all(st_tables[view_name], fetched,
                                                              view_name)]
    /\ UNCHANGED <<st_kind, st_cells, st_tables, st_features, st_view_to_keys,
                   st_view_features, st_feature_rows, st_result, st_pc, serve_vars>>
    /\ UNCHANGED <<builder_vars, now, status_vars, planner_vars, cache_vars, codec_vars, tail_vars>>

\* lines 168-174: join_next hands over a task that ended
SqliteJoin ==
    /\ st_pc = "spawn"
    /\ DOMAIN st_view_to_keys = {}
    /\ \E view_name \in DOMAIN st_tasks :
          /\ st_tasks[view_name][1] # "Running"
          /\ IF st_tasks[view_name][1] = "Panic"
             THEN /\ StoreReturns(<<"Err", "Error joining online feature task">>)
                  /\ UNCHANGED <<st_view_to_keys, st_view_features, st_feature_rows>>
             ELSE /\ st_feature_rows' = Append(st_feature_rows, st_tasks[view_name])
                  /\ st_tasks' = MapWithout(st_tasks, view_name)
                  /\ UNCHANGED <<st_kind, st_cells, st_tables, st_features, st_view_to_keys,
                                 st_view_features, st_result, st_pc, serve_vars>>
                  /\ UNCHANGED <<builder_vars, now, status_vars, planner_vars, cache_vars,
                                 codec_vars, tail_vars>>

\* lines 175-187: the join set is empty
SqliteCollect ==
    /\ st_pc = "spawn"
    /\ DOMAIN st_view_to_keys = {}
    /\ DOMAIN st_tasks = {}
    /\ IF errors_of(st_feature_rows) # <<>>
       THEN StoreReturns(<<"Err", <<"error while getting online data",
                                    errors_of(st_feature_rows)>>>>)
       ELSE StoreReturns(<<"Ok", clean_data_of(st_feature_rows, 1)>>)
    /\ UNCHANGED <<st_view_to_keys, st_view_features, st_feature_rows>>

\* redis.rs lines 369-480: features iterates in some order and the pipeline
\* is answered or not
RedisGet ==
    /\ st_pc = "redis"
    /\ \E keys \in Perms(DOMAIN st_features), connected \in BOOLEAN :
          StoreReturns(redis_get_feature_values(st_features, keys, RedisHashes(st_cells),
                                                connected))
    /\ UNCHANGED <<st_view_to_keys, st_view_features, st_feature_rows>>

NextStore ==
    Resolve \/ BuildMapping \/ PlanFeature \/ PlanReturn \/ StoreCall \/ SqliteGroup
        \/ SqliteSpawn \/ SqliteTask \/ SqliteJoin \/ SqliteCollect \/ RedisGet \/ Respond

SpecStore == InitStore /\ [][NextStore]_vars

(***************************************************************************)
(* C18: no partial response of the sqlite store.  When the task of a view  *)
(* queried fails (its query ends with an error other than "no such         *)
(* table", a row selected cannot be decoded, or the task panics),          *)
(* get_feature_values returns an error, get_online_features returns an     *)
(* error and no row reaches the response, whatever the other tasks         *)
(* returned.  A table that is not there gives zero rows and no failure:    *)
(* when no task fails, the call fails only for want of a connection, and   *)
(* returns no row of a view without a table.                               *)
(***************************************************************************)
SqliteReturned == st_kind = "sqlite" /\ st_pc = "returned"
\* the (view, feature) pairs asked of the store, for the one key
AskedCells == UNION {Range(st_features[k]) : k \in DOMAIN st_features}
QueriedViews == {c.feature_view_name : c \in AskedCells}
TaskFails(view_name) ==
    \/ st_tables[view_name] \in {"error", "panic"}
    \/ /\ st_tables[view_name] = "ok"
       /\ \E c \in AskedCells : c.feature_view_name = view_name /\ st_cells[c] = Garbage
C18_NoPartialResponse ==
    SqliteReturned =>
        /\ (\E v \in QueriedViews : TaskFails(v)) =>
              /\ st_result[1] = "Err"
              /\ sv_result[1] = "Err"
              /\ sv_pc = "done"
              /\ sv_rows = <<>>
        /\ (\A v \in QueriedViews : ~TaskFails(v)) =>
              \/ st_result = <<"Err", "PoolTimedOut">>
              \/ /\ st_result[1] = "Ok"
                 /\ \A i \in DOMAIN st_result[2] :
                       st_tables[st_result[2][i].feature_view_name] = "ok"
                 /\ \A c \in AskedCells :
                       (st_tables[c.feature_view_name] = "ok" /\ st_cells[c] # Absent) =>
                           \E i \in DOMAIN st_result[2] :
                               /\ st_result[2][i].feature_view_name = c.feature_view_name
                               /\ st_result[2][i].feature_name = c.feature_name
\* the task of one view handed over its rows and the call failed for the
\* task of another
C18_Witness ==
    /\ SqliteReturned
    /\ st_result[1] = "Err" /\ sv_result[1] = "Err"
    /\ \E v \in QueriedViews : TaskFails(v)
    /\ \E i \in DOMAIN st_feature_rows :
          st_feature_rows[i][1] = "Ok" /\ st_feature_rows[i][2] # <<>>

(***************************************************************************)
(* C19: the store returns a row only for a (view, key, feature) that the   *)
(* backend holds a value for, so that the cell of the response for a key   *)
(* or a field the backend does not hold has the status NotFound, for the   *)
(* redis store as for the sqlite store.                                    *)
(***************************************************************************)
NotHeld(c) ==
    \/ st_cells[c] = Absent
    \/ st_kind = "sqlite" /\ st_tables[c.feature_view_name] = "no such table"
StatusesOf(resp, feature_name) ==
    LET j == CHOOSE j \in DOMAIN resp.metadata.feature_names :
                 resp.metadata.feature_names[j] = <<feature_name>>
    IN Range(resp.results[j].statuses)
Responded == sv_pc = "done" /\ st_pc = "returned" /\ sv_result[1] = "Ok"
C19_MissingIsNotFound ==
    Responded =>
        /\ \A i \in DOMAIN st_result[2] :
              ~NotHeld(Feature(st_result[2][i].feature_view_name,
                               st_result[2][i].feature_name))
        /\ \A c \in AskedCells :
              NotHeld(c) => StatusesOf(sv_result[2], c.feature_name) = {"NotFound"}

(***************************************************************************)
(* C21: the encoding is canonical.  Every key that holds the pairs of      *)
(* kc_key in another order is serialized to the bytes of kc_key, and       *)
(* deserialize_key of these bytes returns the names in ascending order     *)
(* with each value at the index of its name.                               *)
(***************************************************************************)
Reordered(k) ==
    {EntityKey([i \in DOMAIN p |-> k.join_keys[p[i]]],
               [i \in DOMAIN p |-> k.entity_values[p[i]]]) :
        p \in Perms(DOMAIN k.join_keys)}
AllSupported(k) == \A i \in DOMAIN k.entity_values : SupportedValue(k.entity_values[i])
C21_CanonicalEncoding ==
    (RoundTripDone /\ kc_version = "V3" /\ AllSupported(kc_key)) =>
        /\ \A other \in Reordered(kc_key) : serialize_key(other, "V3") = kc_bytes
        /\ kc_decoded[1] = "Ok"
        /\ \A i, j \in DOMAIN kc_decoded[2].join_keys :
              i < j => StrLess(kc_decoded[2].join_keys[i], kc_decoded[2].join_keys[j])
        /\ PairsOf(kc_decoded[2]) = PairsOf(kc_key)

(***************************************************************************)
(* Specification SpecDecode: serialize_key of a key, then deserialize_key  *)
(* by a reader of any version of bytes that arrive whole, cut short, or    *)
(* with one byte of a count, a tag or a length changed.                    *)
(***************************************************************************)
Versions == {"V1", "V2", "V3"}
\* "driver_id" and the key of tests::test_serialize_key
DriverIdName == <<100, 114, 105, 118, 101, 114, 95, 105, 100>>
TestKey == EntityKey(<<DriverIdName>>, <<Int64Val(1005)>>)
DecodeValues == {Int32Val(1), Int64Val(-1), StringVal(<<97>>), BytesVal(<<0, 255>>)}
DecodeKeys ==
    {TestKey} \cup
    {EntityKey(names, values) :
        names \in {l \in SeqsUpTo(CodecNames, MaxColumns) : l # <<>> /\ Injective(l)},
        values \in SeqsUpTo(DecodeValues, MaxColumns)}
\* the values a byte is changed to
TamperBytes == {0, 2, 3, 5, 9, 11, 200}

\* the offsets of the tags and of the lengths of the chunks that follow the
\* count, given the lengths of the payloads of the chunks
RECURSIVE chunk_offsets(_, _, _)
chunk_offsets(lengths, c, at) ==
    IF c > Len(lengths) THEN <<>>
    ELSE <<[tag |-> at, len |-> at + 4]>> \o chunk_offsets(lengths, c + 1, at + 8 + lengths[c])
\* the chunks of the bytes of a key: its names in order, then their values
ChunksOf(k) ==
    LET key_map == key_map_of(k)
        sorted_keys == sorted(DOMAIN key_map)
        n == Len(sorted_keys)
    IN chunk_offsets([c \in 1..(2 * n) |->
                         IF c <= n THEN Len(sorted_keys[c])
                         ELSE Len(serialize_value(key_map[sorted_keys[c - n]])[2]) - 8],
                     1, 4)
Substituted(bytes, at, x) == [bytes EXCEPT ![at + 1] = x]
Truncations(bytes) == {SubSeq(bytes, 1, n) : n \in 0..(Len(bytes) - 1)}
Substitutions(bytes, k) ==
    {Substituted(bytes, at, x) :
        at \in {0} \cup {ChunksOf(k)[c].tag : c \in DOMAIN ChunksOf(k)}
                   \cup {ChunksOf(k)[c].len : c \in DOMAIN ChunksOf(k)},
        x \in TamperBytes}

InitDecode ==
    /\ kc_key \in {k \in DecodeKeys : Len(k.join_keys) = Len(k.entity_values)}
    /\ kc_version \in Versions
    /\ kc_bytes = <<"None">>
    /\ kc_decoded = <<"None">>
    /\ kc_pc = "serialize"
    /\ now = UNIX_EPOCH
    /\ BuilderIdle /\ StatusIdle /\ PlannerIdle /\ ServeIdle /\ CacheIdle /\ StoreIdle /\ TailIdle

\* the bytes reach a reader of some version: whole, cut short or changed
Receive ==
    /\ kc_pc = "deserialize"
    /\ \E received \in {kc_bytes[2]} \cup Truncations(kc_bytes[2])
                          \cup Substitutions(kc_bytes[2], kc_key) :
          kc_bytes' = <<"Ok", received>>
    /\ kc_version' \in Versions
    /\ kc_pc' = "received"
    /\ UNCHANGED <<kc_key, kc_decoded>>
    /\ UNCHANGED <<builder_vars, now, status_vars, planner_vars, serve_vars, cache_vars, store_vars, tail_vars>>

\* key_serialization.rs lines 124-162
DeserializeReceived ==
    /\ kc_pc = "received"
    /\ kc_decoded' = deserialize_key(kc_bytes[2], kc_version)
    /\ kc_pc' = "decoded"
    /\ UNCHANGED <<kc_key, kc_version, kc_bytes>>
    /\ UNCHANGED <<builder_vars, now, status_vars, planner_vars, serve_vars, cache_vars, store_vars, tail_vars>>

NextDecode == Serialize \/ Receive \/ DeserializeReceived

SpecDecode == InitDecode /\ [][NextDecode]_vars

(***************************************************************************)
(* C22: serialize_key of version V3 emits, little-endian, the count N of   *)
(* the columns, then for each name in ascending order the tag 2, the       *)
(* length of the name and its bytes, then for each value in that order its *)
(* tag, the length of its payload (4 for int32, 8 for int64, the number of *)
(* bytes for string and bytes) and the payload; {driver_id: int64(1005)}   *)
(* gives the bytes of the test; serialize_key and deserialize_key reject   *)
(* the versions V1 and V2.                                                 *)
(***************************************************************************)
Ascending(k) ==
    CHOOSE l \in Perms(DOMAIN k.join_keys) :
        \A i, j \in DOMAIN l : i < j => StrLess(k.join_keys[l[i]], k.join_keys[l[j]])
TagOf(v) ==
    CASE v[1] = "Int32Val" -> 3 [] v[1] = "Int64Val" -> 4
      [] v[1] = "StringVal" -> 2 [] v[1] = "BytesVal" -> 1
PayloadLen(v) ==
    CASE v[1] = "Int32Val" -> 4 [] v[1] = "Int64Val" -> 8 [] OTHER -> Len(v[2])
PayloadIs(v, payload) ==
    CASE v[1] = "Int32Val" -> int_from_le_bytes(payload) = v[2]
      [] v[1] = "Int64Val" -> i64_from_le_bytes(payload) = v[2]
      [] OTHER -> payload = v[2]
Field32(bytes, at) == le_sum(SubSeq(bytes, at + 1, at + 4))
LayoutOf(k, bytes) ==
    LET order == Ascending(k)
        n == Len(order)
        name(c) == k.join_keys[order[c]]
        value(c) == k.entity_values[order[c]]
        chunks == chunk_offsets([c \in 1..(2 * n) |->
                                    IF c <= n THEN Len(name(c)) ELSE PayloadLen(value(c - n))],
                                1, 4)
        payload(c, len) == SubSeq(bytes, chunks[c].len + 5, chunks[c].len + 4 + len)
    IN /\ Field32(bytes, 0) = n
       /\ \A c \in 1..n :
             /\ Field32(bytes, chunks[c].tag) = 2
             /\ Field32(bytes, chunks[c].len) = Len(name(c))
             /\ payload(c, Len(name(c))) = name(c)
             /\ Field32(bytes, chunks[n + c].tag) = TagOf(value(c))
             /\ Field32(bytes, chunks[n + c].len) = PayloadLen(value(c))
             /\ PayloadIs(value(c), payload(n + c, PayloadLen(value(c))))
       /\ Len(bytes) = chunks[2 * n].len + 4 + PayloadLen(value(n))
TestBytes ==
    <<1, 0, 0, 0, 2, 0, 0, 0, 9, 0, 0, 0>> \o DriverIdName
        \o <<4, 0, 0, 0, 8, 0, 0, 0, 237, 3, 0, 0, 0, 0, 0, 0>>
VersionRejected == <<"Err", "Unsupported version of key serializer">>
C22_KeyLayout ==
    /\ kc_pc = "deserialize" =>
          /\ kc_version = "V3"
          /\ kc_bytes[1] = "Ok"
          /\ LayoutOf(kc_key, kc_bytes[2])
          /\ kc_key = TestKey => kc_bytes[2] = TestBytes
    /\ kc_pc = "done" => (kc_version \in {"V1", "V2"} /\ kc_bytes = VersionRejected)
    /\ (kc_pc = "decoded" /\ kc_version \in {"V1", "V2"}) => kc_decoded = VersionRejected
\* the bytes of the key of the test, whole, were read as V2
C22_Witness ==
    /\ kc_pc = "decoded"
    /\ kc_key = TestKey
    /\ kc_bytes = <<"Ok", TestBytes>>
    /\ kc_version = "V2"
    /\ kc_decoded = VersionRejected

(***************************************************************************)
(* C23: deserialize_key returns an error and does not panic for malformed  *)
(* bytes: bytes cut short, a count larger than the data, a name whose tag  *)
(* is not the string tag, an int32 or int64 whose length is not 4 or 8, a  *)
(* value tag of an unsupported type.                                       *)
(***************************************************************************)
Written == serialize_key(kc_key, "V3")[2]
Decoded == kc_pc = "decoded" /\ kc_version = "V3"
CutShort == Len(kc_bytes[2]) < Len(Written)
ChangedAt(at) == Len(kc_bytes[2]) = Len(Written) /\ kc_bytes[2][at + 1] # Written[at + 1]
CountRaised == ChangedAt(0) /\ kc_bytes[2][1] > Written[1]
NameChunks == 1..Len(kc_key.join_keys)
ValueChunks == (Len(kc_key.join_keys) + 1)..(2 * Len(kc_key.join_keys))
NameTagChanged == \E c \in NameChunks : ChangedAt(ChunksOf(kc_key)[c].tag)
IntLengthChanged ==
    \E c \in ValueChunks :
        /\ ChangedAt(ChunksOf(kc_key)[c].len)
        /\ Written[ChunksOf(kc_key)[c].tag + 1] \in {EnumInt32, EnumInt64}
ValueTagUnsupported ==
    \E c \in ValueChunks :
        /\ ChangedAt(ChunksOf(kc_key)[c].tag)
        /\ kc_bytes[2][ChunksOf(kc_key)[c].tag + 1]
               \notin {EnumInt32, EnumInt64, EnumString, EnumBytesList}
Malformed ==
    CutShort \/ CountRaised \/ NameTagChanged \/ IntLengthChanged \/ ValueTagUnsupported
C23_MalformedIsError == (Decoded /\ Malformed) => kc_decoded[1] = "Err"


(***************************************************************************)
(* The two adapters in front of get_online_features: the HTTP handler of   *)
(* rest-server and the RPC method of grpc-server.  Each turns the result   *)
(* of the call into its answer.                                            *)
(***************************************************************************)
\* error.rs: what an anyhow error downcasts to; the errors that are not a
\* FeastCoreError carry a message only
downcast_ref(err) == IF Len(err) > 1 THEN Some(err) ELSE None
\* the result of the call as the adapter receives it: the errors raised
\* after the resolution are messages (anyhow!), the errors of the resolution
\* keep their type
received(result, in_resolution) ==
    IF result[1] = "Err" /\ ~in_resolution THEN <<"Err", <<result[2]>>>> ELSE result

\* rest-server server.rs 136-155: the answer of handle_feature_request for
\* the result of the call
handle_feature_request(result) ==
    IF result[1] = "Ok" THEN <<"200 OK", result[2]>>
    ELSE IF result[1] = "Panic" THEN <<"Panic">>
    ELSE LET feast_error == downcast_ref(result[2])
         IN IF feast_error # None /\ is_not_found(feast_error[1])
            THEN <<"404 Not Found", feast_error[1]>>
            ELSE <<"500 Internal Server Error", result[2]>>

\* grpc-server server.rs 47-74: the requests from_request_proto can build
FromRequestProto(r) ==
    /\ r.full_feature_names # None
    /\ ~(r.feature_service # None /\ r.features # None)

\* grpc-server server.rs 115-132: the answer of the RPC method for the
\* result of the call
grpc_get_online_features(result) ==
    IF result[1] = "Ok" THEN <<"OK", result[2]>>
    ELSE IF result[1] = "Panic" THEN <<"Panic">>
    ELSE <<"INTERNAL", <<"failed to retrieve online features">>>>

Surfaces == {"http", "grpc"}

InitAdapter ==
    /\ ad_surface \in Surfaces
    /\ ad_reply = <<"None">>
    /\ sv_request \in
           {r \in ServeRequests :
               /\ (r.feature_service # None /\ r.features # None) =>
                      r.features = Some(<<<<"driver_hourly_stats", ":", "conv_rate">>>>)
               /\ ad_surface = "grpc" => FromRequestProto(r)}
    /\ sv_store_calls = 0
    /\ sv_rows = <<>>
    /\ sv_result = <<"None">>
    /\ sv_pc = "start"
    /\ now = ServingTime
    /\ BuilderIdle /\ StatusIdle /\ PlannerIdle /\ CacheIdle /\ CodecIdle /\ StoreIdle
    /\ PoolIdle

\* the adapter answers once the call has returned
Reply ==
    /\ sv_pc = "done"
    /\ ad_reply = <<"None">>
    /\ LET result == received(sv_result, ResolutionFailed)
       IN ad_reply' = IF ad_surface = "http" THEN handle_feature_request(result)
                      ELSE grpc_get_online_features(result)
    /\ UNCHANGED ad_surface
    /\ UNCHANGED <<builder_vars, now, status_vars, planner_vars, serve_vars, cache_vars,
                   codec_vars, store_vars, pool_vars>>

NextAdapter == NextServe \/ Reply

SpecAdapter == InitAdapter /\ [][NextAdapter]_vars

Replied == ad_reply # <<"None">>
\* the call failed because a feature service or a feature view is unknown
FailedNotFound == ResolutionFailed /\ is_not_found(sv_result[2])
HttpNotFound == ad_surface = "http" /\ Replied /\ FailedNotFound

(***************************************************************************)
(* C24: when get_online_features fails because a feature service or a      *)
(* feature view is unknown, the adapter reports it as not found on both    *)
(* surfaces: the HTTP adapter answers 404 and the RPC adapter answers      *)
(* status NOT_FOUND.                                                       *)
(***************************************************************************)
C24_NotFoundOnBothSurfaces ==
    (Replied /\ FailedNotFound) =>
        /\ ad_surface = "http" => ad_reply[1] = "404 Not Found"
        /\ ad_surface = "grpc" => ad_reply[1] = "NOT_FOUND"


(***************************************************************************)
(* Specification SpecShare: feature_views_to_keys over views that have the *)
(* same, different and comma-bearing lists of entity columns.              *)
(***************************************************************************)
\* a view of one entity column whose name holds a comma
JoinedView ==
    [name |-> "route_stats",
     features |-> <<Field("legs", "Int64")>>,
     ttl |-> 0,
     entity_names |-> <<"route">>,
     entity_columns |-> <<Field(JoinedName, "String")>>,
     join_key_map |-> None]
\* a view of the columns of PairView in the other order
SwappedView ==
    [name |-> "truck_stats",
     features |-> <<Field("loads", "Int64")>>,
     ttl |-> 0,
     entity_names |-> <<"truck", "driver">>,
     entity_columns |-> <<Field("truck_id", "String"), Field("driver_id", "Int64")>>,
     join_key_map |-> None]
ShareViews == {DriverView, RankView, PairView, SwappedView, JoinedView, GlobalView}
ShareEntries ==
    {[feature |-> Feature(v.name, v.features[f].name), view |-> v] :
        v \in ShareViews, f \in {1}}
    \cup {[feature |-> Feature(DriverView.name, DriverView.features[2].name),
           view |-> DriverView]}
ShareServices == {ftv \in SeqsUpTo(ShareEntries, MaxFeatures) : Injective(ftv)}
ShareRequests ==
    UNION {[names -> SeqsUpTo({IdInt(1)}, MaxVector) \ {<<>>}] :
              names \in SUBSET (EntityNames \cup {JoinedName})}

InitShare ==
    /\ pl_entities \in ShareRequests
    /\ pl_views \in ShareServices
    /\ pl_mapping = EmptyMap
    /\ pl_cache = EmptyMap
    /\ pl_result = <<>>
    /\ pl_i = 0
    /\ pl_error = None
    /\ pl_pc = "start"
    /\ now = ServingTime
    /\ BuilderIdle /\ StatusIdle /\ ExtIdle

SpecShare == InitShare /\ [][NextPlanner]_vars

\* the ordered list of the origin entity-column names of a view
OriginColumnNames(view) == [c \in DOMAIN view.entity_columns |-> view.entity_columns[c].name]
\* the emitted entries of the views that are not entity-less
PlainEntries == {r \in DOMAIN pl_result : ~is_entity_less(pl_views[r].view)}
SameVector(a, b) == pl_result[a].entity_keys.ptr = pl_result[b].entity_keys.ptr

(***************************************************************************)
(* C25: within one call of feature_views_to_keys, the features of two      *)
(* resolved views that are not entity-less and have the same ordered list  *)
(* of origin entity-column names carry the same key vector (one Arc), and  *)
(* views with different ordered lists never share a vector.                *)
(***************************************************************************)
C25_SharedKeyVectors ==
    Planned =>
        \A a, b \in PlainEntries :
            SameVector(a, b) <=>
                OriginColumnNames(pl_views[a].view) = OriginColumnNames(pl_views[b].view)


(***************************************************************************)
(* Specification SpecRefresh: the refresh task from the moment it is       *)
(* spawned, for every TTL the configuration can give, and resolutions that *)
(* follow one another.  The runtime schedules every task that can run and  *)
(* time passes, hence the weak fairness of every step.                     *)
(***************************************************************************)
RefreshRequests ==
    {<<<<"driver_hourly_stats", ":", "conv_rate">>>>, <<<<"ghost_view", ":", "x">>>>}

InitRefresh ==
    /\ now = UNIX_EPOCH
    /\ cr_inner = 1
    /\ cr_created_at = now
    /\ cr_ttl \in 0..MaxTtl
    /\ cr_live = {1}
    /\ rf_pc = "spawned"
    /\ rf_next = now
    /\ rf_new = 0
    /\ rf_last = "none"
    /\ rd_pc = "start"
    /\ rd_request \in RefreshRequests
    /\ rd_names = <<>>
    /\ rd_registry = 0
    /\ rd_i = 0
    /\ rd_result = <<"None">>
    /\ rd_warned = FALSE
    /\ cr_created_by = 1
    /\ rd_created_by = 0
    /\ BuilderIdle /\ StatusIdle /\ PlannerIdle /\ ServeIdle /\ CodecIdle /\ StoreIdle
    /\ TailIdle

\* tokio::time::interval asserts that its period is not zero
interval(period) == IF period > 0 THEN "waiting" ELSE "panicked"

\* line 208: the task creates its interval
RefreshStart ==
    /\ rf_pc = "spawned"
    /\ rf_pc' = interval(cr_ttl)
    /\ UNCHANGED <<cr_inner, cr_created_at, cr_created_by, cr_ttl, cr_live, rf_next, rf_new, rf_last>>
    /\ UNCHANGED <<rd_pc, rd_request, rd_names, rd_registry, rd_i, rd_result, rd_warned, rd_created_by>>
    /\ UNCHANGED <<builder_vars, now, status_vars, planner_vars, serve_vars, codec_vars,
                   store_vars, tail_vars>>

\* feature_store_impl.rs line 34: the next request resolves its features
NextCall ==
    /\ rd_pc = "done"
    /\ rd_pc' = "start"
    /\ rd_names' = <<>>
    /\ rd_registry' = 0
    /\ rd_i' = 0
    /\ rd_result' = <<"None">>
    /\ rd_warned' = FALSE
    /\ rd_created_by' = 0
    /\ UNCHANGED rd_request
    /\ UNCHANGED <<cr_inner, cr_created_at, cr_created_by, cr_ttl, cr_live, rf_pc, rf_next, rf_new, rf_last>>
    /\ UNCHANGED <<builder_vars, now, status_vars, planner_vars, serve_vars, codec_vars,
                   store_vars, tail_vars>>

NextRefresh == RefreshStart \/ NextCall \/ NextCache

FairRefresh ==
    /\ WF_vars(Tick) /\ WF_vars(RefreshStart) /\ WF_vars(RefreshTick)
    /\ WF_vars(RefreshLoad) /\ WF_vars(StoreInner) /\ WF_vars(StoreCreatedAt)
    /\ WF_vars(CheckStale) /\ WF_vars(LoadInner) /\ WF_vars(ParseNames)
    /\ WF_vars(ResolveName) /\ WF_vars(ResolveReturn) /\ WF_vars(NextCall)

SpecRefresh == InitRefresh /\ [][NextRefresh]_vars /\ FairRefresh

\* the task waits for a tick that comes within the time of the model
TickAhead == rf_pc = "waiting" /\ rf_next <= MaxTime
Loading == rf_pc = "loading"
\* a resolution holds snapshot n or a newer one
Observed(n) == rd_pc \in {"parse", "resolve"} /\ rd_registry >= n

(***************************************************************************)
(* C26: for a registry cached with any configured TTL the refresh task     *)
(* runs the load again and again: once spawned it comes to load, after a   *)
(* load that failed or succeeded it comes to load again at the next tick,  *)
(* and a snapshot that a successful load published is eventually the one a *)
(* later resolution works on.                                              *)
(***************************************************************************)
C26_RefresherRunsForEver ==
    /\ (rf_pc = "spawned") ~> Loading
    /\ TickAhead ~> Loading
    /\ \A n \in 2..MaxSnapshots : (cr_inner = n) ~> Observed(n)


(***************************************************************************)
(* Specification SpecPool: concurrent calls of                             *)
(* SqliteOnlineStore::get_feature_values on one connection pool.  A call   *)
(* loops over its views, acquires a connection and spawns the lookup task  *)
(* that owns it; a task drops its connection when it ends, and the tasks   *)
(* of a call that has returned are aborted with its JoinSet.               *)
(***************************************************************************)
Connections == 1..MaxConnections
Calls == 1..MaxCalls
\* an acquire that hands out connections whoever holds them
acquirable_any(idle) == Connections
\* the connections acquire() can hand out: those no one holds
acquirable(idle) == idle
\* a PoolConnection dropped goes back to the pool
release(idle, connection) == idle \cup {connection}

LookupTask(view_name, connection, state) ==
    [view_name |-> view_name, connection |-> connection, state |-> state]
NoCall == [pc |-> "idle", view_to_keys |-> {}, connection |-> None, join_set |-> {}]
\* the tasks of a JoinSet that still run, and those that were aborted and
\* have not stopped yet
InFlightOf(join_set) == {t \in join_set : t.state \in {"running", "aborted"}}
Finished(join_set) == join_set \ InFlightOf(join_set)
\* JoinSet dropped: the tasks that run are aborted, the results are dropped
abort_all(join_set) ==
    {LookupTask(t.view_name, t.connection, "aborted") : t \in InFlightOf(join_set)}

InitPool ==
    /\ pool_idle = Connections
    /\ pool_calls = [c \in Calls |-> NoCall]
    /\ now = ServingTime
    /\ BuilderIdle /\ StatusIdle /\ PlannerIdle /\ ServeIdle /\ CacheIdle /\ CodecIdle
    /\ StoreIdle /\ AdapterIdle

PoolUnchanged ==
    UNCHANGED <<builder_vars, now, status_vars, planner_vars, serve_vars, cache_vars,
                codec_vars, store_vars, adapter_vars>>

\* the views of a call: none, one or two (the views differ by name only)
PoolViewSets == {{}, {DriverView.name}, StoreViewNames}

\* lines 108-125: a call groups its features by view; the tasks of its
\* previous JoinSet have all stopped
PoolCall ==
    \E c \in Calls, views \in PoolViewSets :
        /\ pool_calls[c].pc = "idle"
        /\ pool_calls[c].join_set = {}
        /\ pool_calls' = [pool_calls EXCEPT ![c] =
                             [pc |-> "loop", view_to_keys |-> views,
                              connection |-> None, join_set |-> {}]]
        /\ UNCHANGED pool_idle
        /\ PoolUnchanged

\* line 134: connection_pool.acquire().await completes with a connection
PoolAcquire ==
    \E c \in Calls :
        /\ pool_calls[c].pc = "loop"
        /\ \E view_name \in pool_calls[c].view_to_keys,
              connection \in acquirable(pool_idle) :
              /\ pool_idle' = pool_idle \ {connection}
              /\ pool_calls' = [pool_calls EXCEPT ![c].pc = "spawn",
                                                  ![c].connection =
                                                      Some(<<view_name, connection>>)]
        /\ PoolUnchanged

\* line 134: acquire() times out while every connection is held, and `?`
\* returns the error: the JoinSet is dropped
PoolAcquireTimeout ==
    \E c \in Calls :
        /\ pool_calls[c].pc = "loop"
        /\ pool_calls[c].view_to_keys # {}
        /\ acquirable(pool_idle) = {}
        /\ pool_calls' = [pool_calls EXCEPT ![c].pc = "idle",
                                            ![c].view_to_keys = {},
                                            ![c].join_set = abort_all(@)]
        /\ UNCHANGED pool_idle
        /\ PoolUnchanged

\* lines 137-161: the task is spawned and the connection moves into it
PoolSpawn ==
    \E c \in Calls :
        /\ pool_calls[c].pc = "spawn"
        /\ LET acquired == pool_calls[c].connection[1]
           IN pool_calls' =
                  [pool_calls EXCEPT ![c].pc = "loop",
                                     ![c].view_to_keys = @ \ {acquired[1]},
                                     ![c].connection = None,
                                     ![c].join_set =
                                         @ \cup {LookupTask(acquired[1], acquired[2],
                                                            "running")}]
        /\ UNCHANGED pool_idle
        /\ PoolUnchanged

\* lines 148-160: a task ends with rows, with an error or by a panic, or it
\* stops because it was aborted; its connection is dropped with it
PoolTaskEnd ==
    \E c \in Calls :
        \E t \in InFlightOf(pool_calls[c].join_set) :
            \E outcome \in IF t.state = "aborted" THEN {"stopped"}
                           ELSE {"ok", "err", "panicked"} :
                /\ pool_idle' = release(pool_idle, t.connection)
                /\ pool_calls' =
                       [pool_calls EXCEPT ![c].join_set =
                            IF outcome = "stopped" THEN @ \ {t}
                            ELSE (@ \ {t}) \cup {LookupTask(t.view_name, 0, outcome)}]
                /\ PoolUnchanged

\* line 163: the loop over the views is over
PoolLoopEnd ==
    \E c \in Calls :
        /\ pool_calls[c].pc = "loop"
        /\ pool_calls[c].view_to_keys = {}
        /\ pool_calls' = [pool_calls EXCEPT ![c].pc = "join"]
        /\ UNCHANGED pool_idle
        /\ PoolUnchanged

\* lines 164-169: join_next gives the result of a task that ended; a task
\* that panicked makes the call return, and the JoinSet is dropped
PoolJoin ==
    \E c \in Calls :
        /\ pool_calls[c].pc = "join"
        /\ \E t \in Finished(pool_calls[c].join_set) :
              pool_calls' =
                  IF t.state = "panicked"
                  THEN [pool_calls EXCEPT ![c].pc = "idle",
                                          ![c].join_set = abort_all(@ \ {t})]
                  ELSE [pool_calls EXCEPT ![c].join_set = @ \ {t}]
        /\ UNCHANGED pool_idle
        /\ PoolUnchanged

\* lines 164 and 170-187: join_next gives None and the call returns
PoolReturn ==
    \E c \in Calls :
        /\ pool_calls[c].pc = "join"
        /\ pool_calls[c].join_set = {}
        /\ pool_calls' = [pool_calls EXCEPT ![c].pc = "idle"]
        /\ UNCHANGED pool_idle
        /\ PoolUnchanged

NextPool ==
    PoolCall \/ PoolAcquire \/ PoolAcquireTimeout \/ PoolSpawn \/ PoolTaskEnd
        \/ PoolLoopEnd \/ PoolJoin \/ PoolReturn

SpecPool == InitPool /\ [][NextPool]_vars

\* the lookup tasks in flight, of all calls
InFlight == UNION {{<<c, t>> : t \in InFlightOf(pool_calls[c].join_set)} : c \in Calls}
\* the calls that hold a connection they have acquired and not yet moved
\* into a task
Acquired == {c \in Calls : pool_calls[c].connection # None}
HeldConnections ==
    {ct[2].connection : ct \in InFlight} \cup {pool_calls[c].connection[1][2] : c \in Acquired}

(***************************************************************************)
(* C27: the lookup tasks of get_feature_values are bounded by the          *)
(* connection pool.  Every task in flight holds one connection of the      *)
(* pool, which no other task and no call holds and which the pool does not *)
(* count as idle; at no time are more than max_connections tasks in flight *)
(* across all calls; and a task that has ended, with rows, with an error   *)
(* or by a panic, holds no connection: every connection that no task in    *)
(* flight and no acquiring call holds is idle in the pool.                 *)
(***************************************************************************)
C27_PooledLookups ==
    /\ \A ct \in InFlight : ct[2].connection \in Connections \ pool_idle
    /\ \A ct, cu \in InFlight : ct # cu => ct[2].connection # cu[2].connection
    /\ \A ct \in InFlight, c \in Acquired :
           ct[2].connection # pool_calls[c].connection[1][2]
    /\ Cardinality(InFlight) <= MaxConnections
    /\ pool_idle = Connections \ HeldConnections

\* every connection is held by a task in flight while a call waits for one,
\* and a task of that call has failed
C27_Witness ==
    /\ Cardinality(InFlight) = MaxConnections
    /\ \E c \in Calls :
          /\ pool_calls[c].pc = "loop"
          /\ pool_calls[c].view_to_keys # {}
          /\ \E t \in pool_calls[c].join_set : t.state = "err"


\* the column of a feature in a response
ColumnOf(resp, feature_name) ==
    resp.results[CHOOSE j \in DOMAIN resp.metadata.feature_names :
                     resp.metadata.feature_names[j] = <<feature_name>>]
\* the request's vector of ids for the view of a feature
RequestVectorOf(c) ==
    LET view == CHOOSE v \in StoreViews : v.name = c.feature_view_name
    IN sv_request.entities[view.entity_columns[1].name]
\* the positions of a vector that hold an id that an earlier position holds
RepeatedPositions(vector) ==
    {i \in DOMAIN vector : \E j \in 1..(i - 1) : vector[j] = vector[i]}

(***************************************************************************)
(* C28: when the same entity value occurs at several positions of one      *)
(* request vector and the store holds a row of a feature for that value,   *)
(* every one of those positions of the feature column carries the row's    *)
(* value, status and event timestamp, none of them is NotFound, and the    *)
(* column has exactly one cell per request position, for the sqlite store  *)
(* as for the redis store.                                                 *)
(***************************************************************************)
C28_RepeatedIdsServed ==
    Responded =>
        \A c \in AskedCells :
            (~NotHeld(c) /\ RepeatedPositions(RequestVectorOf(c)) # {}) =>
                LET column == ColumnOf(sv_result[2], c.feature_name)
                    vector == RequestVectorOf(c)
                IN /\ Len(column.statuses) = Len(vector)
                   /\ Len(column.values) = Len(vector)
                   /\ Len(column.event_timestamps) = Len(vector)
                   /\ \A i \in RepeatedPositions(vector) :
                         /\ column.statuses[i] # "NotFound"
                         /\ column.statuses[i] = column.statuses[1]
                         /\ column.values[i] = column.values[1]
                         /\ column.event_timestamps[i] = column.event_timestamps[1]


(***************************************************************************)
(* Specification SpecCoerce: get_online_features from the planning on, for *)
(* views of one entity column declared Int32, Int64 and String and for     *)
(* request ids inside and outside the range of the Int32 column.  The      *)
(* store holds a row under every key the planner asks for.                 *)
(***************************************************************************)
\* a view of one entity column declared String
TruckView ==
    [name |-> "truck_load",
     features |-> <<Field("load", "Int64")>>,
     ttl |-> 0,
     entity_names |-> <<"truck">>,
     entity_columns |-> <<Field("truck_id", "String")>>,
     join_key_map |-> None]
CoerceEntries ==
    {[feature |-> Feature(v.name, v.features[1].name), view |-> v] :
        v \in {DriverView, RankView, TruckView}}
CoerceServices == {ftv \in SeqsUpTo(CoerceEntries, MaxFeatures) : Injective(ftv)}
\* ids inside and outside the scaled i32, and a string id
CoerceIds == PlannerIds \cup {IdString("a")}
CoerceRequests ==
    UNION {[names -> SeqsUpTo(CoerceIds, MaxVector)] : names \in SUBSET EntityNames}

InitCoerce ==
    /\ pl_entities \in CoerceRequests
    /\ pl_views \in CoerceServices
    /\ pl_mapping = EmptyMap
    /\ pl_cache = EmptyMap
    /\ pl_result = <<>>
    /\ pl_i = 0
    /\ pl_error = None
    /\ pl_pc = "start"
    /\ sv_request =
           GetOnlineFeaturesRequest(
               pl_entities, None,
               Some([i \in DOMAIN pl_views |->
                        <<pl_views[i].feature.feature_view_name, ":",
                          pl_views[i].feature.feature_name>>]),
               None)
    /\ sv_store_calls = 0
    /\ sv_rows = <<>>
    /\ sv_result = <<"None">>
    /\ sv_pc = "planning"
    /\ now = ServingTime
    /\ BuilderIdle /\ StatusIdle /\ CacheIdle /\ CodecIdle /\ StoreIdle /\ TailIdle

NextCoerce ==
    BuildMapping \/ PlanFeature \/ PlanReturn \/ PlanFailed \/ CallStore \/ Respond

SpecCoerce == InitCoerce /\ [][NextCoerce]_vars

\* the request's vector for the entity column of planned entry r
CoerceVectorOf(r) == sv_request.entities[pl_views[r].view.entity_columns[1].name]
\* the planned entries whose key vector was built for their own view
OwnVector == {r \in DOMAIN pl_result : pl_result[r].entity_keys.ptr = r}
\* the positions of a vector that hold the first occurrence of their id
FirstPositions(vector) == DOMAIN vector \ RepeatedPositions(vector)
CoercedTo(r, i) == pl_result[r].entity_keys.keys[i].entity_values[1]

(***************************************************************************)
(* C29: an entity id that to_proto_value coerces to the type of a view's   *)
(* column is mapped back by val_to_entity_id_value to the request id, so   *)
(* that the store row returned under the coerced key is placed at the      *)
(* request position of that id and the cell is not left NotFound; this     *)
(* for integer ids of an Int32 column, in and out of the i32 range, of an  *)
(* Int64 column and of a String column, and for string ids.                *)
(***************************************************************************)
C29_CoercionRoundTrip ==
    (sv_pc = "done" /\ sv_result[1] = "Ok") =>
        \A r \in OwnVector :
            \A i \in FirstPositions(CoerceVectorOf(r)) :
                /\ val_to_entity_id_value(CoercedTo(r, i)) = <<"Ok", CoerceVectorOf(r)[i]>>
                /\ ColumnOf(sv_result[2], pl_result[r].feature.feature_name).statuses[i]
                       # "NotFound"


\* the call has loaded created_at and the snapshot
BothLoaded == rd_pc \in {"parse", "resolve", "done"} /\ rd_registry # 0
(***************************************************************************)
(* C30: the refresh task stores the new snapshot before it stores the new  *)
(* creation time, and a resolution loads the creation time before it loads *)
(* the snapshot; hence under every interleaving a resolution that observes *)
(* the creation time written by refresh k resolves against the snapshot    *)
(* published by refresh k or by a later refresh, never against an older    *)
(* one.  Snapshots are numbered in the order of their publication, the     *)
(* initial load being 1.                                                   *)
(***************************************************************************)
C30_PublicationOrder ==
    /\ cr_created_by <= cr_inner
    /\ BothLoaded => rd_registry >= rd_created_by

\* the call observed the creation time of one refresh and resolved against
\* the snapshot of a later one
C30_Witness ==
    /\ BothLoaded
    /\ rd_created_by >= 2
    /\ rd_registry > rd_created_by

====
